---- MODULE Spec2Model ----
(***************************************************************************)
(* A model of homonim's block-parallel fusion driver: the paired block     *)
(* reader (raster_pair.py: RasterPairReader), the window helpers of        *)
(* raster_array.py and the driver (fuse.py: RasterFuse).                   *)
(*                                                                         *)
(* Geometry.  An image is a raster of `shape` = <<rows, cols>> square      *)
(* pixels of side `res` world units whose upper left corner lies at world  *)
(* position `org` = <<row, col>>; the world row coordinate grows downwards *)
(* (the mirror image of a north-up affine transform).  A window is the     *)
(* rasterio Window record; the float windows rasterio returns from         *)
(* window(bounds) are kept exactly, as integer numerators over the        *)
(* denominator `den` (the pixel size of the image the window is in).       *)
(***************************************************************************)
EXTENDS Integers, Sequences, FiniteSets, TLC

(***************************************************************************)
(* Bounds of the model.                                                    *)
(***************************************************************************)
MaxShape == 4        \* largest source raster side, in source pixels
MaxOverlap == 2      \* largest halo, in proc-CRS pixels
MaxMemBytes == 3     \* the block memory budgets tried are 4^k bytes, k in 0..MaxMemBytes

(***************************************************************************)
(* Program constants.                                                      *)
(***************************************************************************)
dtype_size == 4      \* np.dtype('float32').itemsize
inf == -1            \* stands for float('inf') in max_block_mem

(***************************************************************************)
(* numpy and Python arithmetic, on integers and on fractions n/d (d > 0).  *)
(***************************************************************************)
fmax(a, b) == IF a >= b THEN a ELSE b

fmin(a, b) == IF a <= b THEN a ELSE b

np_floor(n, d) == n \div d

np_ceil(n, d) == -((-n) \div d)

\* np.round rounds halves to the nearest even integer
np_round(n, d) ==
    LET f == n \div d
        r == n - f * d
    IN  IF 2 * r < d THEN f
        ELSE IF 2 * r > d THEN f + 1
        ELSE IF f % 2 = 0 THEN f ELSE f + 1

RECURSIVE pow2(_)
pow2(n) == IF n = 0 THEN 1 ELSE 2 * pow2(n - 1)

\* range(start, stop, step) for step > 0, as a sequence
range(start, stop, step) ==
    LET n == IF stop > start THEN np_ceil(stop - start, step) ELSE 0
    IN  [i \in 1..n |-> start + (i - 1) * step]

(***************************************************************************)
(* rasterio windows.                                                       *)
(***************************************************************************)
Window(col_off, row_off, width, height) ==
    [col_off |-> col_off, row_off |-> row_off, width |-> width, height |-> height]

\* DatasetReader.window_bounds(window): the world bounds of an integer window
window_bounds(im, win) ==
    [top    |-> im.org[1] + win.row_off * im.res,
     left   |-> im.org[2] + win.col_off * im.res,
     bottom |-> im.org[1] + (win.row_off + win.height) * im.res,
     right  |-> im.org[2] + (win.col_off + win.width) * im.res]

\* DatasetReader.bounds
bounds(im) == window_bounds(im, Window(0, 0, im.shape[2], im.shape[1]))

\* DatasetReader.window(bounds): the float window of world bounds, over den
window(im, b) ==
    [col_off |-> b.left - im.org[2], row_off |-> b.top - im.org[1],
     width |-> b.right - b.left, height |-> b.bottom - b.top, den |-> im.res]

expand_window_to_grid(win) ==
    LET col_off  == np_floor(win.col_off, win.den)
        col_frac == win.col_off - col_off * win.den
        row_off  == np_floor(win.row_off, win.den)
        row_frac == win.row_off - row_off * win.den
        width    == np_ceil(win.width + col_frac, win.den)
        height   == np_ceil(win.height + row_frac, win.den)
    IN  Window(col_off, row_off, width, height)

\* a plausible slip: the output window expanded outwards like the input window
round_window_to_grid_expanded(win) == expand_window_to_grid(win)

round_window_to_grid(win) ==
    LET row_range == <<np_round(win.row_off, win.den),
                       np_round(win.row_off + win.height, win.den)>>
        col_range == <<np_round(win.col_off, win.den),
                       np_round(win.col_off + win.width, win.den)>>
    IN  Window(col_range[1], row_range[1],
               col_range[2] - col_range[1], row_range[2] - row_range[1])

\* RasterArray.bounded_window_slices: the window cropped to the dataset
bounded_window_slices(win, shape) ==
    LET win_ul == <<win.row_off, win.col_off>>
        win_br == <<win.row_off + win.height, win.col_off + win.width>>
        bounded_ul == <<fmax(win_ul[1], 0), fmax(win_ul[2], 0)>>
        bounded_br == <<fmin(win_br[1], shape[1]), fmin(win_br[2], shape[2])>>
    IN  Window(bounded_ul[2], bounded_ul[1],
               bounded_br[2] - bounded_ul[2], bounded_br[1] - bounded_ul[1])

\* the pixels (row, col) of an integer window
Pixels(win) ==
    {<<r, c>> : r \in win.row_off..(win.row_off + win.height - 1),
                c \in win.col_off..(win.col_off + win.width - 1)}

(***************************************************************************)
(* RasterArray on pixel values.  An array `ra` is the record of its        *)
(* attributes: array (the cells, by <<row, col>>), shape, crs, nodata and  *)
(* off, the <<row, col>> of its upper left cell on the grid of the dataset *)
(* it was read from (its transform).  A dataset is the record of its       *)
(* shape, count, crs, nodata, masked (a per-dataset mask or alpha band),   *)
(* dmask (that mask) and data (the pixels, by <<band, row, col>>).         *)
(***************************************************************************)
NaN == -1            \* float('nan'): RasterArray.default_nodata
None == -2           \* Python's None: no nodata value
Unwritten == -3      \* a pixel of a new file that was never written

nan_equals(a, b) == (a = b /\ a # NaN) \/ (a = NaN /\ b = NaN)

Cells(shape) == (0..(shape[1] - 1)) \X (0..(shape[2] - 1))

\* the indexes picked by Python's slice(start, stop) of len items
py_slice(start, stop, len) ==
    LET norm(i) == IF i < 0 THEN fmax(i + len, 0) ELSE fmin(i, len)
    IN  norm(start)..(norm(stop) - 1)

\* RasterArray.bounded_window_slices: the slices of the array that the
\* cropped window fills
bounded_slices(win, shape) ==
    LET bounded == bounded_window_slices(win, shape)
        bounded_start == <<bounded.row_off - win.row_off, bounded.col_off - win.col_off>>
        bounded_stop == <<bounded_start[1] + bounded.height,
                          bounded_start[2] + bounded.width>>
    IN  [start |-> bounded_start, stop |-> bounded_stop]

\* DatasetReader.dataset_mask: the valid pixels of a one-band dataset
dataset_mask(im) ==
    [p \in Cells(im.shape) |->
        IF im.masked THEN im.dmask[p]
        ELSE IF im.nodata = None THEN TRUE
        ELSE ~nan_equals(im.data[<<1, p[1], p[2]>>], im.nodata)]

\* a read that lays the window's pixels at the upper left of the array,
\* whatever part of the window lies in the dataset
from_rio_dataset_unsliced(im, index, win) ==
    LET nodata == IF im.masked \/ im.nodata = None THEN NaN ELSE im.nodata
        shape == <<win.height, win.width>>
        bounded == bounded_window_slices(win, im.shape)
    IN  [array |-> [p \in Cells(shape) |->
                       LET q == <<bounded.row_off + p[1], bounded.col_off + p[2]>>
                       IN  IF q \in Cells(im.shape)
                           THEN im.data[<<index, q[1], q[2]>>] ELSE nodata],
         shape |-> shape, crs |-> im.crs,
         off |-> <<win.row_off, win.col_off>>, nodata |-> nodata]

\* RasterArray.from_rio_dataset: an array of the window's shape, filled with
\* nodata, whose bounded slices are read from the cropped window and masked
from_rio_dataset(im, index, win) ==
    LET is_masked == im.masked
        nodata == IF is_masked \/ im.nodata = None THEN NaN ELSE im.nodata
        shape == <<win.height, win.width>>
        bounded_window == bounded_window_slices(win, im.shape)
        slices == bounded_slices(win, im.shape)
        rows == py_slice(slices.start[1], slices.stop[1], shape[1])
        cols == py_slice(slices.start[2], slices.stop[2], shape[2])
    IN  [array |-> [p \in Cells(shape) |->
                       LET q == <<bounded_window.row_off + (p[1] - slices.start[1]),
                                  bounded_window.col_off + (p[2] - slices.start[2])>>
                       IN  IF p[1] \in rows /\ p[2] \in cols /\ q \in Cells(im.shape)
                           THEN (IF is_masked /\ ~im.dmask[q] THEN nodata
                                 ELSE im.data[<<index, q[1], q[2]>>])
                           ELSE nodata],
         shape |-> shape, crs |-> im.crs,
         off |-> <<win.row_off, win.col_off>>, nodata |-> nodata]

\* RasterArray.mask: the valid cells
mask(ra) ==
    [p \in Cells(ra.shape) |->
        IF ra.nodata = None THEN TRUE ELSE ~nan_equals(ra.array[p], ra.nodata)]

\* a setter that renames the nodata value and leaves the cells alone
nodata_setter_value_only(ra, value) == [ra EXCEPT !.nodata = value]

\* RasterArray.nodata, the setter
nodata_setter(ra, value) ==
    IF value = None \/ ra.nodata = None
    THEN [ra EXCEPT !.nodata = value]
    ELSE IF ~nan_equals(value, ra.nodata)
    THEN LET nodata_mask == [p \in Cells(ra.shape) |-> ~mask(ra)[p]]
         IN  [ra EXCEPT !.array = [p \in Cells(ra.shape) |->
                                      IF nodata_mask[p] THEN value ELSE ra.array[p]],
                        !.nodata = value]
    ELSE ra

\* RasterArray.slice_array, for a window of the dataset grid: the cells of
\* the array in the window
slice_array(ra, win) ==
    LET rel == round_window_to_grid(
                   [col_off |-> win.col_off - ra.off[2], row_off |-> win.row_off - ra.off[1],
                    width |-> win.width, height |-> win.height, den |-> 1])
        rows == py_slice(rel.row_off, rel.row_off + rel.height, ra.shape[1])
        cols == py_slice(rel.col_off, rel.col_off + rel.width, ra.shape[2])
        shape == <<Cardinality(rows), Cardinality(cols)>>
    IN  [array |-> [p \in Cells(shape) |->
                       ra.array[<<rel.row_off + p[1], rel.col_off + p[2]>>]],
         shape |-> shape, crs |-> ra.crs,
         off |-> <<ra.off[1] + rel.row_off, ra.off[2] + rel.col_off>>,
         nodata |-> ra.nodata]

\* a write that does not compare the CRSs
ra_to_rio_dataset_error_any_crs(ra, im, index, win) ==
    IF index > im.count THEN "ValueError"
    ELSE LET bounded_ra == slice_array(ra, bounded_window_slices(win, im.shape))
         IN  IF bounded_ra.shape[1] <= 0 \/ bounded_ra.shape[2] <= 0
             THEN "ValueError" ELSE "none"

\* RasterArray.to_rio_dataset: the error raised before anything is written,
\* or "none"
ra_to_rio_dataset_error(ra, im, index, win) ==
    IF im.crs # ra.crs THEN "ImageFormatError"
    ELSE IF index > im.count THEN "ValueError"
    ELSE LET bounded_ra == slice_array(ra, bounded_window_slices(win, im.shape))
         IN  IF bounded_ra.shape[1] <= 0 \/ bounded_ra.shape[2] <= 0
             THEN "ValueError" ELSE "none"

\* RasterArray.to_rio_dataset: the cropped array written to the cropped
\* window of a band of the dataset.  A cropped array smaller than the window
\* is only warned of, and the dataset's write stretches it over the window.
ra_to_rio_dataset(ra, im, index, win) ==
    LET bounded == bounded_window_slices(win, im.shape)
        bounded_ra == slice_array(ra, bounded)
    IN  [im EXCEPT !.data =
            [p \in DOMAIN im.data |->
                IF p[1] = index /\ <<p[2], p[3]>> \in Pixels(bounded)
                THEN bounded_ra.array[
                         <<((p[2] - bounded.row_off) * bounded_ra.shape[1]) \div bounded.height,
                           ((p[3] - bounded.col_off) * bounded_ra.shape[2]) \div bounded.width>>]
                ELSE im.data[p]]]

\* a kernel model that corrects every cell alike, valid or not
apply_unmasked(src_ra, gain) ==
    [src_ra EXCEPT !.array = [p \in Cells(src_ra.shape) |->
                                 IF gain = NaN THEN NaN
                                 ELSE IF src_ra.array[p] = NaN THEN NaN
                                 ELSE gain * src_ra.array[p]],
                   !.nodata = NaN]

\* KernelModel.apply with a gain that is the same for all cells, or nodata:
\* gain * src where the source is valid, nodata elsewhere
apply(src_ra, gain) ==
    [src_ra EXCEPT !.array = [p \in Cells(src_ra.shape) |->
                                 IF ~mask(src_ra)[p] \/ gain = NaN THEN NaN
                                 ELSE gain * src_ra.array[p]],
                   !.nodata = NaN]

\* a block written with the nodata value of the kernel model
process_block_untranslated(src_im, out_im_, in_block, out_block, gain) ==
    LET src_ra == from_rio_dataset(src_im, 1, in_block)
        out_ra == apply(src_ra, gain)
    IN  [out_ra |-> out_ra, out_im |-> ra_to_rio_dataset(out_ra, out_im_, 1, out_block)]

\* RasterFuse._process_block on pixel values: the source block is read and
\* corrected, its nodata set to that of the output image, and its output
\* window written
process_block(src_im, out_im_, in_block, out_block, gain) ==
    LET src_ra == from_rio_dataset(src_im, 1, in_block)
        out_ra == nodata_setter(apply(src_ra, gain), out_im_.nodata)
    IN  [out_ra |-> out_ra, out_im |-> ra_to_rio_dataset(out_ra, out_im_, 1, out_block)]

(***************************************************************************)
(* RasterPairReader: what construction derives from the two images.  The   *)
(* reader `self` is the record of its attributes: proc_crs, the images     *)
(* src_im and ref_im, the non-alpha band lists src_bands and ref_bands,    *)
(* and the windows src_win and ref_win.                                    *)
(***************************************************************************)
pixel_area(im) == im.res * im.res

\* utils.get_nonalpha_bands: the 1-based indexes of the bands that are not alpha
RECURSIVE nonalpha_from(_, _)
nonalpha_from(colorinterp, bi) ==
    IF bi > Len(colorinterp) THEN <<>>
    ELSE IF colorinterp[bi] # "alpha"
         THEN <<bi>> \o nonalpha_from(colorinterp, bi + 1)
         ELSE nonalpha_from(colorinterp, bi + 1)

get_nonalpha_bands(im) == nonalpha_from(im.colorinterp, 1)

\* utils.covers_bounds(im1, im2): the bounds of im1 contain the bounds of im2
covers_bounds(im1, im2) ==
    /\ bounds(im1).top <= bounds(im2).top
    /\ bounds(im1).left <= bounds(im2).left
    /\ bounds(im1).bottom >= bounds(im2).bottom
    /\ bounds(im1).right >= bounds(im2).right

\* _validate_image_pair without its check of the bounds
validate_image_pair_unbounded(src_im, ref_im) ==
    IF Len(get_nonalpha_bands(src_im)) > Len(get_nonalpha_bands(ref_im))
    THEN "ImageContentError"
    ELSE "none"

\* RasterPairReader._validate_image_pair: the error raised, or "none"
validate_image_pair(src_im, ref_im) ==
    IF ~covers_bounds(ref_im, src_im) THEN "ImageContentError"
    ELSE IF Len(get_nonalpha_bands(src_im)) > Len(get_nonalpha_bands(ref_im))
         THEN "ImageContentError"
    ELSE "none"

\* _resolve_proc_crs that takes equal pixel areas for a larger source pixel
resolve_proc_crs_strict(src_im, ref_im, crs) ==
    LET src_pixel_smaller == pixel_area(src_im) < pixel_area(ref_im)
    IN  IF crs = "auto"
        THEN (IF src_pixel_smaller THEN "ref" ELSE "src")
        ELSE crs

\* RasterPairReader._resolve_proc_crs
resolve_proc_crs(src_im, ref_im, crs) ==
    LET src_pixel_smaller == pixel_area(src_im) <= pixel_area(ref_im)
    IN  IF crs = "auto"
        THEN (IF src_pixel_smaller THEN "ref" ELSE "src")
        ELSE crs

\* _init_image_pair: the image windows that allow re-projection without loss
init_ref_win(src_im, ref_im) ==
    expand_window_to_grid(window(ref_im, bounds(src_im)))

init_src_win(src_im, ref_im) ==
    expand_window_to_grid(
        window(src_im, window_bounds(ref_im, init_ref_win(src_im, ref_im))))

(***************************************************************************)
(* RasterPairReader._auto_block_shape.  max_block_mem is given in bytes    *)
(* (the MB argument times 2^20), or is inf.  The float block shape is the  *)
(* window shape with each side halved a whole number of times:             *)
(* <<height / 2^div[1], width / 2^div[2]>>.                                *)
(***************************************************************************)
proc_win_of(self) == IF self.proc_crs = "ref" THEN self.ref_win ELSE self.src_win

\* mem_scale as the fraction <<numerator, denominator>>
mem_scale(self) ==
    LET src_pix_area == pixel_area(self.src_im)
        ref_pix_area == pixel_area(self.ref_im)
    IN  IF self.proc_crs = "ref"
        THEN (IF ref_pix_area > src_pix_area
              THEN <<src_pix_area, ref_pix_area>> ELSE <<1, 1>>)
        ELSE (IF ref_pix_area > src_pix_area
              THEN <<1, 1>> ELSE <<ref_pix_area, src_pix_area>>)

\* np.product(block_shape) * dtype_size > max_block_mem, for the scaled budget
exceeds_block_mem(shape, div, max_block_mem, scale) ==
    /\ max_block_mem # inf
    /\ max_block_mem > 0
    /\ shape[1] * shape[2] * dtype_size * scale[2]
         > max_block_mem * scale[1] * pow2(div[1] + div[2])

\* the halving loop: the number of halvings of each side
RECURSIVE halve_block_shape(_, _, _, _)
halve_block_shape(shape, div, max_block_mem, scale) ==
    IF ~exceeds_block_mem(shape, div, max_block_mem, scale) THEN div
    ELSE LET div_dim == IF shape[1] * pow2(div[2]) >= shape[2] * pow2(div[1])
                        THEN 1 ELSE 2
         IN  halve_block_shape(shape, [div EXCEPT ![div_dim] = @ + 1],
                               max_block_mem, scale)

\* a plausible slip: the halved shape rounded down to whole pixels
auto_block_shape_floor(self, max_block_mem) ==
    LET proc_win == proc_win_of(self)
        shape == <<proc_win.height, proc_win.width>>
        div == halve_block_shape(shape, <<0, 0>>, max_block_mem, mem_scale(self))
    IN  IF shape[1] < pow2(div[1]) \/ shape[2] < pow2(div[2])
        THEN [error |-> "BlockSizeError", block_shape |-> <<0, 0>>]
        ELSE [error |-> "none",
              block_shape |-> <<np_floor(shape[1], pow2(div[1])),
                                np_floor(shape[2], pow2(div[2]))>>]

auto_block_shape(self, max_block_mem) ==
    LET proc_win == proc_win_of(self)
        shape == <<proc_win.height, proc_win.width>>
        div == halve_block_shape(shape, <<0, 0>>, max_block_mem, mem_scale(self))
    IN  IF shape[1] < pow2(div[1]) \/ shape[2] < pow2(div[2])
        THEN [error |-> "BlockSizeError", block_shape |-> <<0, 0>>]
        ELSE [error |-> "none",
              block_shape |-> <<np_ceil(shape[1], pow2(div[1])),
                                np_ceil(shape[2], pow2(div[2]))>>]

(***************************************************************************)
(* RasterPairReader.block_pairs.                                           *)
(***************************************************************************)
\* a plausible slip: the block shape is not checked against the overlap
block_pairs_error_any_overlap(self, overlap, max_block_mem) ==
    auto_block_shape(self, max_block_mem).error

\* the check of the block shape against the overlap, before the first yield
block_pairs_error(self, overlap, max_block_mem) ==
    LET auto == auto_block_shape(self, max_block_mem)
    IN  IF auto.error # "none" THEN auto.error
        ELSE IF auto.block_shape[1] <= overlap[1] \/ auto.block_shape[2] <= overlap[2]
             THEN "BlockSizeError"
        ELSE "none"

\* a plausible slip: an off-by-one step between the upper left rows
ul_row_range_step(self, overlap, block_shape) ==
    LET proc_win == proc_win_of(self)
    IN  range(proc_win.row_off - overlap[1],
              proc_win.row_off + proc_win.height - overlap[1], block_shape[1] + 1)

ul_row_range(self, overlap, block_shape) ==
    LET proc_win == proc_win_of(self)
    IN  range(proc_win.row_off - overlap[1],
              proc_win.row_off + proc_win.height - overlap[1], block_shape[1])

ul_col_range(self, overlap, block_shape) ==
    LET proc_win == proc_win_of(self)
    IN  range(proc_win.col_off - overlap[2],
              proc_win.col_off + proc_win.width - overlap[2], block_shape[2])

\* a plausible slip: the overlap subtracted from the start of the ranges is
\* not added back at the end of the block
overlap_br_none(ul, block_shape, overlap) ==
    <<ul[1] + block_shape[1], ul[2] + block_shape[2]>>

\* a plausible slip: the overlap added once, so that it is shared by the
\* two sides of the block
overlap_br_once(ul, block_shape, overlap) ==
    <<ul[1] + block_shape[1] + overlap[1], ul[2] + block_shape[2] + overlap[2]>>

\* the bottom right corner of the overlapping block with upper left corner ul
overlap_br(ul, block_shape, overlap) ==
    <<ul[1] + block_shape[1] + 2 * overlap[1],
      ul[2] + block_shape[2] + 2 * overlap[2]>>

\* a plausible slip: np.all for np.any, the flag set for corner blocks only
block_outer_all(in_ul, in_br, proc_win_ul, proc_win_br) ==
    \/ in_ul[1] <= proc_win_ul[1] /\ in_ul[2] <= proc_win_ul[2]
    \/ in_br[1] >= proc_win_br[1] /\ in_br[2] >= proc_win_br[2]

\* block touches image boundary?
block_outer(in_ul, in_br, proc_win_ul, proc_win_br) ==
    \/ in_ul[1] <= proc_win_ul[1] \/ in_ul[2] <= proc_win_ul[2]
    \/ in_br[1] >= proc_win_br[1] \/ in_br[2] >= proc_win_br[2]

\* the block pair the loop body forms for a band and an upper left corner
block_pair(self, overlap, block_shape, band_i, ul_row, ul_col) ==
    LET proc_win == proc_win_of(self)
        proc_im  == IF self.proc_crs = "ref" THEN self.ref_im ELSE self.src_im
        other_im == IF self.proc_crs = "ref" THEN self.src_im ELSE self.ref_im
        proc_win_ul == <<proc_win.row_off, proc_win.col_off>>
        proc_win_br == <<proc_win.height + proc_win.row_off,
                         proc_win.width + proc_win.col_off>>
        ul == <<ul_row, ul_col>>
        br == overlap_br(ul, block_shape, overlap)
        in_ul == <<fmax(ul[1], proc_win_ul[1]), fmax(ul[2], proc_win_ul[2])>>
        in_br == <<fmin(br[1], proc_win_br[1]), fmin(br[2], proc_win_br[2])>>
        out_ul == <<fmax(ul[1] + overlap[1], proc_win_ul[1]),
                    fmax(ul[2] + overlap[2], proc_win_ul[2])>>
        out_br == <<fmin(br[1] - overlap[1], proc_win_br[1]),
                    fmin(br[2] - overlap[2], proc_win_br[2])>>
        outer == block_outer(in_ul, in_br, proc_win_ul, proc_win_br)
        proc_in_block == Window(in_ul[2], in_ul[1],
                                in_br[2] - in_ul[2], in_br[1] - in_ul[1])
        proc_out_block == Window(out_ul[2], out_ul[1],
                                 out_br[2] - out_ul[2], out_br[1] - out_ul[1])
        other_in_block == expand_window_to_grid(
                              window(other_im, window_bounds(proc_im, proc_in_block)))
        other_out_block == round_window_to_grid(
                              window(other_im, window_bounds(proc_im, proc_out_block)))
    IN  IF self.proc_crs = "ref"
        THEN [band_i |-> band_i,
              src_in_block |-> other_in_block, ref_in_block |-> proc_in_block,
              src_out_block |-> other_out_block, ref_out_block |-> proc_out_block,
              outer |-> outer]
        ELSE [band_i |-> band_i,
              src_in_block |-> proc_in_block, ref_in_block |-> other_in_block,
              src_out_block |-> proc_out_block, ref_out_block |-> other_out_block,
              outer |-> outer]

\* the number of block pairs the generator yields
num_block_pairs(self, overlap, max_block_mem) ==
    IF block_pairs_error(self, overlap, max_block_mem) # "none" THEN 0
    ELSE LET block_shape == auto_block_shape(self, max_block_mem).block_shape
         IN  Len(self.src_bands) * Len(ul_row_range(self, overlap, block_shape))
                                 * Len(ul_col_range(self, overlap, block_shape))

\* a plausible slip: the loops nested the other way, the bands innermost, so
\* that the bands of one block follow one another
block_pairs_block_major(self, overlap, max_block_mem, n) ==
    LET block_shape == auto_block_shape(self, max_block_mem).block_shape
        rows == ul_row_range(self, overlap, block_shape)
        cols == ul_col_range(self, overlap, block_shape)
        i == n - 1
        bands == Len(self.src_bands)
        band_i == i % bands
        j == i \div bands
    IN  block_pair(self, overlap, block_shape, band_i,
                   rows[(j \div Len(cols)) + 1], cols[(j % Len(cols)) + 1])

\* the n-th block pair yielded (n = 1, 2, ...): bands outermost, then the
\* product of the upper left rows and columns, rows outermost
block_pairs(self, overlap, max_block_mem, n) ==
    LET block_shape == auto_block_shape(self, max_block_mem).block_shape
        rows == ul_row_range(self, overlap, block_shape)
        cols == ul_col_range(self, overlap, block_shape)
        i == n - 1
        per_band == Len(rows) * Len(cols)
        band_i == i \div per_band
        j == i % per_band
    IN  block_pair(self, overlap, block_shape, band_i,
                   rows[(j \div Len(cols)) + 1], cols[(j % Len(cols)) + 1])

(***************************************************************************)
(* State.                                                                  *)
(***************************************************************************)
VARIABLES
    src_file,   \* the source image file: shape, res, org, colorinterp
    ref_file,   \* the reference image file
    proc_crs_arg, \* the proc_crs argument given to the constructor
    obj,        \* the reader object: "none", "constructed" or "failed"
    self,       \* the reader's attributes (see above) once construction set them
    src_state,  \* the dataset handle self._src_im: "none", "open" or "closed"
    ref_state,  \* the dataset handle self._ref_im: "none", "open" or "closed"
    ctx,        \* the reader as a context manager: "out", "in" or "exited"
    gen,        \* a block_pairs generator: pc, arguments, block shape, yields so far
    yielded,    \* the block pairs the generator yielded, in order
    raised,     \* the exception the last call raised to the caller, or "none"
    homo_file,  \* the corrected image file: "absent", "old" or "new" (created by process)
    param_file, \* the parameter image file: "absent", "old" or "new"
    out_im,     \* the dataset handle self._out_im: "none", "open" or "closed"
    param_im,   \* the dataset handle self._param_im: "none", "open" or "closed"
    out_data,   \* the corrected image: <<band, row, col>> -> the block task that wrote it, or 0
    param_data, \* the writes to the parameter image: plane, band_i, band index written
    overviews,  \* TRUE once build_overviews has built the overviews
    config,     \* the arguments of the process() call: threads, param_image, ...
    proc,       \* process(): pc, the number of blocks submitted, futures seen, exception
    task,       \* the block tasks submitted (or listed), in order: block pair and pc
    src_lock,   \* self._src_lock: the task holding it, or 0
    ref_lock,   \* self._ref_lock
    write_lock, \* self._write_lock
    param_lock, \* self._param_lock
    ac_finished,\* as_completed: futures found finished when the wait began, not yet yielded
    ac_waiter,  \* as_completed: futures finished since, in order of completion, not yet yielded
    read_log,   \* the reads done by read(): <<image, band_i, band index read>>
    faults,     \* the number of I/O or model errors injected so far
    history,    \* for the claims: first task to fail, blocks submitted by then, the
                \* futures found finished by as_completed, the direct calls made
    ds,         \* a dataset open for reading: the pixels of a source image
    out,        \* a dataset open for writing: the pixels of a new image
    ra,         \* a RasterArray
    call,       \* for the claims: the last call made on the RasterArray class
    hom         \* a call of HomonImBase._find_gain_and_offset_cv: arguments and result

readerVars == <<src_file, ref_file, proc_crs_arg, obj, self, src_state, ref_state, ctx>>

genVars == <<gen, yielded>>

fileVars == <<homo_file, param_file, out_im, param_im, out_data, param_data, overviews>>

lockVars == <<src_lock, ref_lock, write_lock, param_lock>>

poolVars == <<config, proc, task, ac_finished, ac_waiter>>

fuseVars == <<fileVars, lockVars, poolVars, read_log, faults, history>>

arrayVars == <<ds, out, ra, call, hom>>

vars == <<readerVars, genVars, raised, fuseVars, arrayVars>>

\* a closed property that takes every pair for open
closed_never == FALSE

\* RasterPairReader.closed
closed == \/ src_state = "none" \/ ref_state = "none"
          \/ src_state = "closed" \/ ref_state = "closed"

NoSelf == [proc_crs |-> "auto"]

\* the attributes __init__ and _init_image_pair set when validation passes
init_image_pair(src_im, ref_im, crs) ==
    [proc_crs |-> resolve_proc_crs(src_im, ref_im, crs),
     src_im |-> src_im, ref_im |-> ref_im,
     src_bands |-> get_nonalpha_bands(src_im),
     ref_bands |-> get_nonalpha_bands(ref_im),
     ref_win |-> init_ref_win(src_im, ref_im),
     src_win |-> init_src_win(src_im, ref_im)]

NoGen == [pc |-> "none", overlap |-> <<0, 0>>, max_block_mem |-> inf,
          block_shape |-> <<0, 0>>, n |-> 0]

NoConfig == [threads |-> 0]

\* no overviews built
NoOverviews == [built |-> FALSE, by |-> "none", homo_levels |-> << >>,
                param_levels |-> << >>, max_num_levels |-> 0, min_level_pixels |-> 0]

NoHistory == [first_failed |-> 0, submitted_then |-> 0, ac_snapshot |-> {}, calls |-> 0]

NoDataset == [shape |-> <<0, 0>>, count |-> 0, crs |-> "none", nodata |-> None,
              masked |-> FALSE, dmask |-> << >>, data |-> << >>]

NoArray == [array |-> << >>, shape |-> <<0, 0>>, crs |-> "none", off |-> <<0, 0>>,
            nodata |-> None]

NoCall == [op |-> "none", window |-> [col_off |-> 0, row_off |-> 0, width |-> 0,
                                      height |-> 0], index |-> 0, value |-> None]

\* no call of the legacy parameter fit has been made
NoHom == [pc |-> "none"]

\* no dataset is held and no array made: the runs of the reader and the driver
InitNoArray ==
    /\ ds = NoDataset
    /\ out = NoDataset
    /\ ra = NoArray
    /\ call = NoCall
    /\ hom = NoHom

\* RasterFuse.__init__: no output yet, the locks free; nothing is being processed
InitFuse ==
    /\ out_im = "none"
    /\ param_im = "none"
    /\ out_data = << >>
    /\ param_data = {}
    /\ overviews = NoOverviews
    /\ config = NoConfig
    /\ proc = [pc |-> "idle", n |-> 0, seen |-> 0, exc |-> 0]
    /\ task = << >>
    /\ src_lock = 0
    /\ ref_lock = 0
    /\ write_lock = 0
    /\ param_lock = 0
    /\ ac_finished = {}
    /\ ac_waiter = << >>
    /\ read_log = {}
    /\ faults = 0
    /\ history = NoHistory

(***************************************************************************)
(* The inputs tried.                                                       *)
(***************************************************************************)
ProcCrs == {"auto", "src", "ref"}

Overlaps == (0..MaxOverlap) \X (0..MaxOverlap)

\* block memory budgets in bytes: float('inf'), 0 (no limit) and powers of 4
MaxBlockMems == {inf, 0} \cup {pow2(2 * k) : k \in 0..MaxMemBytes}

SrcShapes == ((1..MaxShape) \X (1..MaxShape)) \cup {<<10, 1>>}

ColorInterps == {<<"gray">>, <<"red", "alpha", "green">>}

SrcImages ==
    {[shape |-> sh, res |-> r, org |-> o, colorinterp |-> ci] :
        sh \in SrcShapes, r \in {1, 2}, o \in {<<3, 3>>, <<4, 5>>, <<6, 4>>},
        ci \in ColorInterps}

RefImages ==
    {[shape |-> <<14, 8>>, res |-> r, org |-> <<0, 0>>,
      colorinterp |-> <<"red", "green", "alpha">>] : r \in {1, 2, 3}}

(***************************************************************************)
(* SpecBlocks: block_pairs on a constructed reader, inside its context     *)
(* (open) or outside it (closed), for every image pair that construction   *)
(* accepts.                                                                *)
(***************************************************************************)
InitBlocks ==
    /\ src_file \in SrcImages
    /\ ref_file \in RefImages
    /\ homo_file = "absent"
    /\ param_file = "absent"
    /\ validate_image_pair(src_file, ref_file) = "none"
    /\ obj = "constructed"
    /\ proc_crs_arg \in ProcCrs
    /\ self = init_image_pair(src_file, ref_file, proc_crs_arg)
    /\ src_state \in {"open", "closed"}
    /\ ref_state = src_state
    /\ ctx = IF src_state = "open" THEN "in" ELSE "out"
    /\ gen = NoGen
    /\ yielded = <<>>
    /\ raised = "none"
    /\ InitFuse
    /\ InitNoArray

\* the caller's thread is not inside process()
CallerFree == proc.pc \in {"idle", "returned", "raised"}

\* block_pairs(overlap, max_block_mem) called and advanced to its first yield
BlockPairsFirst ==
    /\ obj = "constructed"
    /\ CallerFree
    /\ gen.pc = "none"
    /\ \E overlap \in Overlaps, max_block_mem \in MaxBlockMems :
        IF closed
        THEN /\ raised' = "IoError"
             /\ gen' = [NoGen EXCEPT !.pc = "raised"]
             /\ UNCHANGED yielded
        ELSE LET error == block_pairs_error(self, overlap, max_block_mem)
             IN  IF error # "none"
                 THEN /\ raised' = error
                      /\ gen' = [NoGen EXCEPT !.pc = "raised", !.overlap = overlap,
                                              !.max_block_mem = max_block_mem]
                      /\ UNCHANGED yielded
                 ELSE /\ raised' = "none"
                      /\ gen' = [pc |-> "yielding", overlap |-> overlap,
                                 max_block_mem |-> max_block_mem,
                                 block_shape |->
                                     auto_block_shape(self, max_block_mem).block_shape,
                                 n |-> 1]
                      /\ yielded' = <<block_pairs(self, overlap, max_block_mem, 1)>>
    /\ UNCHANGED <<arrayVars, readerVars, fuseVars>>

\* the generator resumed: the next block pair, or the end of the iteration
BlockPairsNext ==
    /\ gen.pc = "yielding"
    /\ CallerFree
    /\ IF gen.n < num_block_pairs(self, gen.overlap, gen.max_block_mem)
       THEN /\ gen' = [gen EXCEPT !.n = @ + 1]
            /\ yielded' = Append(yielded,
                   block_pairs(self, gen.overlap, gen.max_block_mem, gen.n + 1))
       ELSE /\ gen' = [gen EXCEPT !.pc = "done"]
            /\ UNCHANGED yielded
    /\ UNCHANGED <<arrayVars, readerVars, raised, fuseVars>>

NextBlocks == BlockPairsFirst \/ BlockPairsNext

SpecBlocks == InitBlocks /\ [][NextBlocks]_vars

(***************************************************************************)
(* RasterFuse: construction, the context manager and process().            *)
(***************************************************************************)
MaxFaults == 2       \* at most this many injected I/O or model errors per run

\* utils.validate_kernel_shape: odd by odd, and at least 5 by 5 for gain_offset
validate_kernel_shape(kernel_shape, method) ==
    IF kernel_shape[1] % 2 = 0 \/ kernel_shape[2] % 2 = 0 THEN "ConfigError"
    ELSE IF method = "gain_offset" /\ (kernel_shape[1] < 5 \/ kernel_shape[2] < 5)
         THEN "ConfigError"
    ELSE "none"

\* utils.overlap_for_kernel: half the kernel, rounded up
overlap_for_kernel(kernel_shape) ==
    <<np_ceil(kernel_shape[1], 2), np_ceil(kernel_shape[2], 2)>>

\* _init_out_filenames that never looks for the files
init_out_filenames_unchecked(overwrite, param_image) == "none"

\* RasterFuse._init_out_filenames: the existence checks
init_out_filenames(overwrite, param_image) ==
    IF ~overwrite /\ homo_file # "absent" THEN "FileExistsError"
    ELSE IF ~overwrite /\ param_image /\ param_file # "absent" THEN "FileExistsError"
    ELSE "none"

\* the corrected image as rio.open(..., 'w') creates it: every band of the
\* source image's shape, nothing written to it yet
create_out_data ==
    [p \in (1..Len(self.src_bands)) \X (0..(self.src_im.shape[1] - 1))
                                    \X (0..(self.src_im.shape[2] - 1)) |-> 0]

\* RasterArray.to_rio_dataset: the error raised for a window, or "none"
to_rio_dataset_error(win, shape) ==
    LET bounded == bounded_window_slices(win, shape)
    IN  IF bounded.height <= 0 \/ bounded.width <= 0 THEN "ValueError" ELSE "none"

\* to_rio_dataset that takes no notice of the window and writes the whole band
to_rio_dataset_whole_band(data, band, win, shape, writer) ==
    [p \in DOMAIN data |-> IF p[1] = band THEN writer ELSE data[p]]

\* RasterArray.to_rio_dataset of a block into a band of the corrected image:
\* the cropped window of the band now holds the block's pixels
to_rio_dataset(data, band, win, shape, writer) ==
    [p \in DOMAIN data |->
        IF p[1] = band /\ <<p[2], p[3]>> \in Pixels(bounded_window_slices(win, shape))
        THEN writer ELSE data[p]]

\* the planes of a block of parameters: gain, offset and R2
param_ra_count == 3

\* the band count of the parameter image
param_im_count == Len(self.src_bands) * 3

\* indexes laid out band after band: the planes of a band kept together
param_indexes_by_band(count, band_i) ==
    [k \in 1..count |-> band_i * count + (k - 1) + 1]

\* _process_block: np.arange(param_ra.count) * len(self.src_bands) + band_i + 1,
\* the parameter image band index of each plane of a block's parameters
param_indexes(count, band_i) ==
    [k \in 1..count |-> (k - 1) * Len(self.src_bands) + band_i + 1]

\* to_rio_dataset of a block of parameters: plane k of the array goes to band
\* indexes[k] of the parameter image
write_params(data, indexes, band_i) ==
    data \cup {[plane |-> k - 1, band_i |-> band_i, index |-> indexes[k]] :
                   k \in DOMAIN indexes}

\* _process_block: the window of the parameter image a block is written to
param_out_block(bp) ==
    IF self.proc_crs = "ref" THEN bp.ref_out_block ELSE bp.src_out_block

\* the image whose profile the parameter image takes its shape from
param_shape ==
    IF self.proc_crs = "ref" THEN self.ref_im.shape ELSE self.src_im.shape

\* a read that takes band_i for the band index in both files
read_indexes_by_position(bp) ==
    [src |-> bp.band_i + 1, ref |-> bp.band_i + 1]

\* RasterPairReader.read: the band indexes read for a block pair
read_indexes(bp) ==
    [src |-> self.src_bands[bp.band_i + 1], ref |-> self.ref_bands[bp.band_i + 1]]

\* a lock that does not exclude
lock_free_always(lock) == TRUE

\* `with lock:` enters only when no thread holds the lock
lock_free(lock) == lock = 0

\* a plausible slip: acquire and release written out without try/finally, so
\* that an exception of the body leaves the lock with the thread
lock_exit_on_return(t, exc) == IF exc = "none" THEN 0 ELSE t

\* the end of `with lock:`: the lock is released however the body is left
lock_exit(t, exc) == 0

Finished(t) == task[t].pc \in {"done", "failed"}

Running == {t \in 1..Len(task) : task[t].pc \notin {"pending", "done", "failed"}}

\* shutdown(wait=False) returns at once
shutdown_nowait == TRUE

\* ThreadPoolExecutor.shutdown(wait=True) returns once every work item has run
shutdown_returns == \A t \in 1..Len(task) : Finished(t)

\* the defaults of build_overviews and _build_overviews
default_max_num_levels == 8

default_min_level_pixels == 256

\* int(np.log2(n)) for n >= 1
RECURSIVE int_log2(_)
int_log2(n) == IF n < 2 THEN 0 ELSE 1 + int_log2(n \div 2)

\* _build_overviews: the overview levels asked of a dataset of a shape
ovw_levels(shape, max_num_levels, min_level_pixels) ==
    LET max_ovw_levels == int_log2(fmin(shape[1], shape[2]))
        min_level_shape_pow2 == int_log2(min_level_pixels)
        num_ovw_levels == fmin(max_num_levels, max_ovw_levels - min_level_shape_pow2)
    IN  [m \in 1..num_ovw_levels |-> pow2(m)]

\* build_overviews: the levels built for the corrected image, which has the
\* shape of the source image, and for the parameter image if there is one
build_overviews(by, max_num_levels, min_level_pixels) ==
    [built |-> TRUE, by |-> by,
     homo_levels |-> ovw_levels(self.src_im.shape, max_num_levels, min_level_pixels),
     param_levels |-> IF config.param_image
                      THEN ovw_levels(param_shape, max_num_levels, min_level_pixels)
                      ELSE << >>,
     max_num_levels |-> max_num_levels, min_level_pixels |-> min_level_pixels]

\* RasterFuse.close_out
close_out ==
    /\ out_im' = "closed"
    /\ param_im' = IF param_im = "none" THEN "none" ELSE "closed"

(***************************************************************************)
(* The inputs of the driver runs.                                          *)
(***************************************************************************)
FuseSrcImages ==
    {[shape |-> <<3, 6>>, res |-> 2, org |-> o, colorinterp |-> ci] :
        o \in {<<0, 0>>, <<1, 1>>},
        ci \in {<<"gray">>, <<"red", "alpha", "green">>}}

FuseRefImages ==
    {[shape |-> <<2, 4>>, res |-> 3, org |-> <<0, 0>>, colorinterp |-> ci] :
        ci \in {<<"gray">>, <<"alpha", "red", "green">>}}

KernelShapes == {<<1, 1>>, <<2, 1>>, <<0, 3>>, <<3, 3>>, <<5, 5>>}

Methods == {"gain", "gain_offset"}

\* the arguments of process() tried; overwrite is consulted only when an
\* output file exists, and is left at FALSE when none does
ProcessArgs ==
    [threads : {1, 2}, param_image : BOOLEAN, max_block_mem : {inf, 64},
     kernel_shape : KernelShapes, method : Methods,
     overwrite : IF homo_file = "absent" /\ param_file = "absent"
                 THEN {FALSE} ELSE BOOLEAN,
     build_ovw : {TRUE}]

(***************************************************************************)
(* Spec: a reader is constructed on two image files, entered, process() is *)
(* called once and the context is left.                                    *)
(***************************************************************************)
Init ==
    /\ src_file \in FuseSrcImages
    /\ ref_file \in FuseRefImages
    /\ homo_file = "absent"
    /\ param_file = "absent"
    /\ proc_crs_arg = "auto"
    /\ obj = "none"
    /\ self = NoSelf
    /\ src_state = "none"
    /\ ref_state = "none"
    /\ ctx = "out"
    /\ gen = NoGen
    /\ yielded = << >>
    /\ raised = "none"
    /\ InitFuse
    /\ InitNoArray

\* RasterFuse(src_filename, ref_filename, proc_crs): __init__ and
\* _init_image_pair, which opens the pair, validates it and closes it again
Construct ==
    /\ obj = "none"
    /\ \E crs \in ProcCrs :
        LET error == validate_image_pair(src_file, ref_file)
        IN  /\ obj' = IF error = "none" THEN "constructed" ELSE "failed"
            /\ self' = IF error = "none"
                       THEN init_image_pair(src_file, ref_file, crs) ELSE NoSelf
            /\ raised' = error
            /\ proc_crs_arg' = crs
    /\ src_state' = "closed"
    /\ ref_state' = "closed"
    /\ UNCHANGED <<arrayVars, src_file, ref_file, ctx, genVars, fuseVars>>

\* __enter__
Enter ==
    /\ obj = "constructed"
    /\ ctx \in {"out", "exited"}
    /\ ctx' = "in"
    /\ src_state' = "open"
    /\ ref_state' = "open"
    /\ UNCHANGED <<arrayVars, src_file, ref_file, proc_crs_arg, obj, self, genVars, raised,
                   fuseVars>>

\* __exit__, on leaving the with block normally or by an exception of process()
Exit ==
    /\ ctx = "in"
    /\ proc.pc \in {"idle", "returned", "raised"}
    /\ ctx' = "exited"
    /\ src_state' = "closed"
    /\ ref_state' = "closed"
    /\ UNCHANGED <<arrayVars, src_file, ref_file, proc_crs_arg, obj, self, genVars, raised,
                   fuseVars>>

(***************************************************************************)
(* SpecConstruct: construction, entry and exit alone, on every image pair  *)
(* tried, those that construction rejects included.                        *)
(***************************************************************************)
InitConstruct ==
    /\ src_file \in SrcImages \cup FuseSrcImages
    /\ ref_file \in RefImages \cup FuseRefImages
    /\ homo_file = "absent"
    /\ param_file = "absent"
    /\ proc_crs_arg = "auto"
    /\ obj = "none"
    /\ self = NoSelf
    /\ src_state = "none"
    /\ ref_state = "none"
    /\ ctx = "out"
    /\ gen = NoGen
    /\ yielded = << >>
    /\ raised = "none"
    /\ InitFuse
    /\ InitNoArray

NextConstruct == Construct \/ Enter \/ Exit

SpecConstruct == InitConstruct /\ [][NextConstruct]_vars

(***************************************************************************)
(* SpecFiles: as Spec, on one image pair, with output files that may exist *)
(* before process() is called.                                             *)
(***************************************************************************)
InitFiles ==
    /\ src_file = [shape |-> <<3, 6>>, res |-> 2, org |-> <<0, 0>>,
                   colorinterp |-> <<"gray">>]
    /\ ref_file = [shape |-> <<2, 4>>, res |-> 3, org |-> <<0, 0>>,
                   colorinterp |-> <<"gray">>]
    /\ homo_file \in {"absent", "old"}
    /\ param_file \in {"absent", "old"}
    /\ proc_crs_arg = "auto"
    /\ obj = "none"
    /\ self = NoSelf
    /\ src_state = "none"
    /\ ref_state = "none"
    /\ ctx = "out"
    /\ gen = NoGen
    /\ yielded = << >>
    /\ raised = "none"
    /\ InitFuse
    /\ InitNoArray

\* the block tasks of a threads=1 run: the list of all block pairs
list_block_pairs(overlap, max_block_mem) ==
    [n \in 1..num_block_pairs(self, overlap, max_block_mem) |->
        [bp |-> block_pairs(self, overlap, max_block_mem, n), pc |-> "pending",
         exc |-> "none"]]

\* process() with a kernel shape that is not validated
process_error_any_kernel(kernel_shape, method, overwrite, param_image) ==
    IF closed THEN "IoError"
    ELSE init_out_filenames(overwrite, param_image)

\* process(): the checks made before out_manager is entered, in their order:
\* _assert_open, validate_kernel_shape, _init_out_filenames
process_error(kernel_shape, method, overwrite, param_image) ==
    IF closed THEN "IoError"
    ELSE IF validate_kernel_shape(kernel_shape, method) # "none" THEN "ConfigError"
    ELSE init_out_filenames(overwrite, param_image)

\* process(...) up to the start of the block loop: validation, out_manager's
\* open_out and, with threads=1, the listing of the block pairs
Process ==
    /\ obj = "constructed"
    /\ proc.pc = "idle"
    /\ \E args \in ProcessArgs :
        LET overlap == overlap_for_kernel(args.kernel_shape)
            error == process_error(args.kernel_shape, args.method, args.overwrite,
                                   args.param_image)
            cfg == [threads |-> args.threads, param_image |-> args.param_image,
                    max_block_mem |-> args.max_block_mem, overlap |-> overlap,
                    kernel_shape |-> args.kernel_shape, method |-> args.method,
                    build_ovw |-> args.build_ovw, overwrite |-> args.overwrite]
        IN  IF error # "none"
            THEN /\ raised' = error
                 /\ proc' = [proc EXCEPT !.pc = "raised"]
                 /\ config' = cfg
                 /\ UNCHANGED <<task, fileVars>>
            ELSE /\ config' = cfg
                 /\ homo_file' = "new"
                 /\ out_im' = "open"
                 /\ out_data' = create_out_data
                 /\ param_file' = IF args.param_image THEN "new" ELSE param_file
                 /\ param_im' = IF args.param_image THEN "open" ELSE param_im
                 /\ UNCHANGED <<param_data, overviews>>
                 /\ IF args.threads = 1
                    THEN LET bp_error ==
                                 block_pairs_error(self, overlap, args.max_block_mem)
                         IN  IF bp_error # "none"
                             THEN /\ raised' = bp_error
                                  /\ proc' = [proc EXCEPT !.pc = "raised"]
                                  /\ UNCHANGED task
                             ELSE /\ raised' = "none"
                                  /\ task' = list_block_pairs(overlap, args.max_block_mem)
                                  /\ proc' = [proc EXCEPT !.pc = "run", !.n = Len(task')]
                    ELSE /\ raised' = "none"
                         /\ proc' = [proc EXCEPT !.pc = "submit"]
                         /\ UNCHANGED task
    /\ UNCHANGED <<arrayVars, readerVars, genVars, lockVars, ac_finished, ac_waiter,
                   read_log, faults, history>>

\* the worker pool: the next block pair is drawn from block_pairs and
\* submitted; block_pairs raises BlockSizeError when first advanced
Submit ==
    /\ proc.pc = "submit"
    /\ LET bp_error == block_pairs_error(self, config.overlap, config.max_block_mem)
       IN  IF bp_error # "none"
           THEN /\ raised' = bp_error
                /\ proc' = [proc EXCEPT !.pc = "raised"]
                /\ UNCHANGED task
           ELSE /\ proc.n < num_block_pairs(self, config.overlap, config.max_block_mem)
                /\ task' = Append(task,
                       [bp |-> block_pairs(self, config.overlap, config.max_block_mem,
                                           proc.n + 1),
                        pc |-> "pending", exc |-> "none"])
                /\ proc' = [proc EXCEPT !.n = @ + 1]
                /\ UNCHANGED raised
    /\ UNCHANGED <<arrayVars, readerVars, genVars, fileVars, lockVars, config, ac_finished,
                   ac_waiter, read_log, faults, history>>

\* block_pairs is exhausted and as_completed(proc_futures) begins: it takes
\* the futures already finished, to yield them first, and waits on the rest
AsCompleted ==
    /\ proc.pc = "submit"
    /\ block_pairs_error(self, config.overlap, config.max_block_mem) = "none"
    /\ proc.n = num_block_pairs(self, config.overlap, config.max_block_mem)
    /\ proc' = [proc EXCEPT !.pc = "wait"]
    /\ ac_finished' = {t \in 1..Len(task) : Finished(t)}
    /\ ac_waiter' = << >>
    /\ history' = [history EXCEPT !.ac_snapshot = ac_finished']
    /\ UNCHANGED <<arrayVars, readerVars, genVars, raised, fileVars, lockVars, config, task,
                   read_log, faults>>

\* a wait on the futures that never asks for their results
result_not_asked(f) ==
    proc' = [proc EXCEPT !.seen = @ + 1]

\* future.result() of a future as_completed yields: it re-raises the
\* exception of a failed task, which leaves the loop for the executor's exit
result(f) ==
    IF task[f].pc = "failed"
    THEN proc' = [proc EXCEPT !.pc = "shutdown", !.exc = f]
    ELSE proc' = [proc EXCEPT !.seen = @ + 1]

\* as_completed yields the next future: first those finished when the wait
\* began, in no particular order (a set), then the others as they complete
Result ==
    /\ proc.pc = "wait"
    /\ IF ac_finished # {}
       THEN \E f \in ac_finished :
                /\ ac_finished' = ac_finished \ {f}
                /\ result(f)
                /\ UNCHANGED ac_waiter
       ELSE /\ ac_waiter # << >>
            /\ ac_waiter' = Tail(ac_waiter)
            /\ result(Head(ac_waiter))
            /\ UNCHANGED ac_finished
    /\ UNCHANGED <<arrayVars, readerVars, genVars, raised, fileVars, lockVars, config, task,
                   read_log, faults, history>>

\* every block is done: the executor and out_manager are left, which closes
\* the output images, the overviews are built and process() returns
ProcessReturn ==
    /\ \/ proc.pc = "wait" /\ proc.seen = Len(task)
       \/ proc.pc = "run" /\ \A t \in 1..Len(task) : task[t].pc = "done"
    /\ proc' = [proc EXCEPT !.pc = "returned"]
    /\ close_out
    /\ overviews' = IF config.build_ovw
                    THEN build_overviews("process", default_max_num_levels,
                                         default_min_level_pixels)
                    ELSE overviews
    /\ UNCHANGED <<arrayVars, readerVars, genVars, raised, homo_file, param_file, out_data,
                   param_data, lockVars, config, task, ac_finished, ac_waiter,
                   read_log, faults, history>>

\* a task's exception leaves process(): from the worker pool once the
\* executor's exit has waited for every submitted task, with threads=1 at
\* once; out_manager does not regain control and close_out is not reached
ProcessRaise ==
    /\ \/ /\ proc.pc = "shutdown"
          /\ shutdown_returns
          /\ proc' = [proc EXCEPT !.pc = "raised"]
       \/ /\ proc.pc = "run"
          /\ \E f \in 1..Len(task) :
                /\ task[f].pc = "failed"
                /\ proc' = [proc EXCEPT !.pc = "raised", !.exc = f]
    /\ raised' = task[proc'.exc].exc
    /\ UNCHANGED <<arrayVars, readerVars, genVars, fileVars, lockVars, config, task,
                   ac_finished, ac_waiter, read_log, faults, history>>

(***************************************************************************)
(* SpecLifecycle: the methods called by hand on a reader, inside and       *)
(* outside its context: block_pairs, read, build_overviews and process(),  *)
(* which is followed here up to its block loop (Spec follows it on).       *)
(***************************************************************************)
MaxCalls == 2        \* at most this many calls of read and build_overviews by hand

\* read(block_pair) called by hand on a block pair that block_pairs yielded
Read ==
    /\ obj = "constructed"
    /\ CallerFree
    /\ history.calls < MaxCalls
    /\ \E i \in 1..Len(yielded) :
        IF closed
        THEN /\ raised' = "IoError"
             /\ UNCHANGED read_log
        ELSE /\ raised' = "none"
             /\ read_log' = read_log \cup
                   {[im |-> "src", band_i |-> yielded[i].band_i,
                     index |-> read_indexes(yielded[i]).src],
                    [im |-> "ref", band_i |-> yielded[i].band_i,
                     index |-> read_indexes(yielded[i]).ref]}
    /\ history' = [history EXCEPT !.calls = @ + 1]
    /\ UNCHANGED <<arrayVars, readerVars, genVars, fileVars, lockVars, poolVars, faults>>

\* build_overviews(max_num_levels, min_level_pixels) called by hand: the
\* output files are opened again by the names process() set, if it set them,
\* and given overviews
BuildOverviewsOf(levels_args) ==
    /\ obj = "constructed"
    /\ CallerFree
    /\ history.calls < MaxCalls
    /\ \E args \in levels_args :
        IF closed
        THEN raised' = "IoError" /\ UNCHANGED overviews
        ELSE IF proc.pc = "idle" \/ raised \in {"IoError", "ConfigError"}
        THEN raised' = "AttributeError" /\ UNCHANGED overviews
        ELSE IF homo_file = "absent"
        THEN raised' = "RasterioIOError" /\ UNCHANGED overviews
        ELSE /\ raised' = "none"
             /\ overviews' = build_overviews("hand", args[1], args[2])
    /\ history' = [history EXCEPT !.calls = @ + 1]
    /\ UNCHANGED <<arrayVars, readerVars, genVars, homo_file, param_file, out_im, param_im,
                   out_data, param_data, lockVars, poolVars, read_log, faults>>

\* build_overviews() with its defaults
BuildOverviews ==
    BuildOverviewsOf({<<default_max_num_levels, default_min_level_pixels>>})

NextLifecycle ==
    \/ Construct
    \/ Enter
    \/ Exit
    \/ BlockPairsFirst
    \/ BlockPairsNext
    \/ Read
    \/ BuildOverviews
    \/ Process

\* one image pair, of one band
InitLifecycle ==
    /\ src_file = [shape |-> <<3, 6>>, res |-> 2, org |-> <<0, 0>>,
                   colorinterp |-> <<"gray">>]
    /\ ref_file = [shape |-> <<2, 4>>, res |-> 3, org |-> <<0, 0>>,
                   colorinterp |-> <<"gray">>]
    /\ homo_file = "absent"
    /\ param_file = "absent"
    /\ proc_crs_arg = "auto"
    /\ obj = "none"
    /\ self = NoSelf
    /\ src_state = "none"
    /\ ref_state = "none"
    /\ ctx = "out"
    /\ gen = NoGen
    /\ yielded = << >>
    /\ raised = "none"
    /\ InitFuse
    /\ InitNoArray

SpecLifecycle == InitLifecycle /\ [][NextLifecycle]_vars

(***************************************************************************)
(* SpecArray: the RasterArray class on the pixels of a small dataset: an   *)
(* array is read from a window of the dataset ds, its nodata value is set, *)
(* and it is written to a window of the new dataset out; or a block is put *)
(* through _process_block.  A behaviour ends with the first write tried.   *)
(***************************************************************************)
DsShape == <<2, 2>>

\* the pixels: the upper left pixel holds 0 and the lower pixels hold 1
DsData ==
    {d \in [{1} \X (0..(DsShape[1] - 1)) \X (0..(DsShape[2] - 1)) -> {0, 1}] :
        d[<<1, 0, 0>>] = 0 /\ d[<<1, 1, 0>>] = 1 /\ d[<<1, 1, 1>>] = 1}

\* a dataset without a mask, or with a mask that hides the upper right pixel
DsMasks ==
    {[p \in Cells(DsShape) |-> TRUE], [p \in Cells(DsShape) |-> p # <<0, 1>>]}

SrcDatasets ==
    {im \in [shape : {DsShape}, count : {1}, crs : {"utm"}, nodata : {None, NaN, 0},
             masked : BOOLEAN, dmask : DsMasks, data : DsData] :
        im.masked <=> (\E p \in Cells(DsShape) : ~im.dmask[p])}

\* new files of the source's shape: of the source's CRS and any nodata
\* value, or of another CRS
OutDatasets ==
    {im \in [shape : {DsShape}, count : {1}, crs : {"utm", "wgs84"},
             nodata : {None, NaN, 0}, masked : {FALSE},
             dmask : {[p \in Cells(DsShape) |-> TRUE]},
             data : {[p \in {1} \X (0..(DsShape[1] - 1)) \X (0..(DsShape[2] - 1))
                         |-> Unwritten]}] :
        im.crs = "wgs84" => im.nodata = NaN}

\* <<offset, length>> of a window along a side of the dataset: inside, over
\* an edge, over both edges
Spans == {<<-1, 2>>, <<1, 2>>, <<0, 1>>, <<-1, 4>>}

\* the windows read: those that meet the dataset, and some beside it
ReadWindows ==
    {Window(c[1], r[1], c[2], r[2]) : r \in Spans, c \in Spans \cup {<<2, 1>>}}

NodataValues == {None, NaN, 0, 1}

Gains == {1, 2, NaN}

\* nothing was written to the dataset
Fresh(im) == \A p \in DOMAIN im.data : im.data[p] = Unwritten

\* no write was tried yet
NoWrite == call.op \notin {"to_rio_dataset", "process_block"}

\* the window, cropped to the dataset, has no pixel
EmptyBounded(win, im) ==
    LET bounded == bounded_window_slices(win, im.shape)
    IN  bounded.height <= 0 \/ bounded.width <= 0

\* the windows written: of the dataset's grid, cropped to the dataset they
\* lie inside the array or beside it, below or to the right
WriteWindows ==
    {win \in {Window(c, r, n, n) : c \in 0..DsShape[2], r \in 0..DsShape[1],
                                   n \in 1..2} :
        LET bounded == bounded_window_slices(win, out.shape)
            row_off == bounded.row_off - ra.off[1]
            col_off == bounded.col_off - ra.off[2]
        IN  /\ row_off >= 0
            /\ col_off >= 0
            /\ \/ EmptyBounded(win, out)
               \/ row_off >= ra.shape[1]
               \/ col_off >= ra.shape[2]
               \/ /\ row_off + bounded.height <= ra.shape[1]
                  /\ col_off + bounded.width <= ra.shape[2]}

InitArray ==
    /\ src_file = [shape |-> <<3, 6>>, res |-> 2, org |-> <<0, 0>>,
                   colorinterp |-> <<"gray">>]
    /\ ref_file = [shape |-> <<2, 4>>, res |-> 3, org |-> <<0, 0>>,
                   colorinterp |-> <<"gray">>]
    /\ homo_file = "absent"
    /\ param_file = "absent"
    /\ proc_crs_arg = "auto"
    /\ obj = "none"
    /\ self = NoSelf
    /\ src_state = "none"
    /\ ref_state = "none"
    /\ ctx = "out"
    /\ gen = NoGen
    /\ yielded = << >>
    /\ raised = "none"
    /\ InitFuse
    /\ ds \in SrcDatasets
    /\ out \in OutDatasets
    /\ ra = NoArray
    /\ call = NoCall
    /\ hom = NoHom

\* RasterArray.from_rio_dataset(ds, indexes=1, window): what rasterio's read
\* does with a window that has no pixel of the dataset is the library's
\* matter: it raises, or it reads nothing
FromRioDataset ==
    /\ ra = NoArray
    /\ NoWrite
    /\ \E win \in ReadWindows :
        /\ call' = [op |-> "from_rio_dataset", window |-> win, index |-> 1,
                    value |-> None]
        /\ \/ /\ raised' = "none"
              /\ ra' = from_rio_dataset(ds, 1, win)
           \/ /\ EmptyBounded(win, ds)
              /\ raised' = "RasterioIOError"
              /\ UNCHANGED ra
    /\ UNCHANGED <<readerVars, genVars, fuseVars, ds, out, hom>>

\* ra.nodata = value, once
NodataSetter ==
    /\ ra # NoArray
    /\ NoWrite
    /\ call.op # "nodata_setter"
    /\ \E value \in NodataValues :
        /\ call' = [op |-> "nodata_setter", window |-> Window(0, 0, 0, 0),
                    index |-> 0, value |-> value]
        /\ ra' = nodata_setter(ra, value)
    /\ raised' = "none"
    /\ UNCHANGED <<readerVars, genVars, fuseVars, ds, out, hom>>

\* the windows written that the array covers in part: cropped to the
\* dataset they start inside the array and end below it or right of it
PartialWindows ==
    {win \in {Window(c, r, w, h) : c \in 0..(DsShape[2] - 1), r \in 0..(DsShape[1] - 1),
                                   w \in 1..2, h \in 1..2} :
        LET bounded == bounded_window_slices(win, out.shape)
            row_off == bounded.row_off - ra.off[1]
            col_off == bounded.col_off - ra.off[2]
        IN  /\ row_off >= 0 /\ row_off < ra.shape[1]
            /\ col_off >= 0 /\ col_off < ra.shape[2]
            /\ \/ row_off + bounded.height > ra.shape[1]
               \/ col_off + bounded.width > ra.shape[2]}

\* ra.to_rio_dataset(out, indexes=index, window), on a new dataset, for a
\* window of the set windows
ToRioDatasetOf(windows) ==
    /\ ra # NoArray
    /\ NoWrite
    /\ \E index \in 1..2, win \in windows :
        LET error == ra_to_rio_dataset_error(ra, out, index, win)
        IN  /\ call' = [op |-> "to_rio_dataset", window |-> win, index |-> index,
                        value |-> None]
            /\ raised' = error
            /\ out' = IF error = "none" THEN ra_to_rio_dataset(ra, out, index, win)
                      ELSE out
    /\ UNCHANGED <<readerVars, genVars, fuseVars, ds, ra, hom>>

ToRioDataset == ToRioDatasetOf(WriteWindows)

\* the blocks of a block pair: an input window that meets the dataset and
\* an output window inside both
SrcBlocks ==
    {b \in ReadWindows \X {Window(c, r, w, h) : c \in 0..1, r \in 0..1,
                                                 w \in 1..2, h \in 1..2} :
        /\ Pixels(b[2]) # {}
        /\ Pixels(b[2]) \subseteq Pixels(b[1])
        /\ Pixels(b[2]) \subseteq Pixels(Window(0, 0, DsShape[2], DsShape[1]))}

\* _process_block of one block pair, into a new corrected image of the
\* source's CRS
ProcessBlock ==
    /\ ra = NoArray
    /\ NoWrite
    /\ out.crs = ds.crs
    /\ \E b \in SrcBlocks, gain \in Gains :
        LET done == process_block(ds, out, b[1], b[2], gain)
        IN  /\ call' = [op |-> "process_block", window |-> b[2], index |-> 1,
                        value |-> gain]
            /\ out' = done.out_im
    /\ raised' = "none"
    /\ UNCHANGED <<readerVars, genVars, fuseVars, ds, ra, hom>>

NextArray ==
    \/ FromRioDataset
    \/ NodataSetter
    \/ ToRioDataset
    \/ ProcessBlock

SpecArray == InitArray /\ [][NextArray]_vars

(***************************************************************************)
(* SpecSlice: as SpecArray, for one dataset without nodata; the array read *)
(* is sliced, or written, also over windows that it covers only in part.   *)
(***************************************************************************)
InitSlice ==
    /\ InitArray
    /\ ds.nodata = None
    /\ ~ds.masked
    /\ out.crs = ds.crs
    /\ out.nodata = NaN

\* the windows sliced: of the dataset's grid, from a cell of the array on
SliceWindows ==
    {win \in {Window(c, r, w, h) : c \in -1..DsShape[2], r \in -1..DsShape[1],
                                   w \in 1..2, h \in 1..2} :
        /\ win.row_off >= ra.off[1] /\ win.row_off < ra.off[1] + ra.shape[1]
        /\ win.col_off >= ra.off[2] /\ win.col_off < ra.off[2] + ra.shape[2]}

\* ra = ra.slice_array(*bounds), for the bounds of a window of the grid
SliceArray ==
    /\ ra # NoArray
    /\ NoWrite
    /\ call.op = "from_rio_dataset"
    /\ \E win \in SliceWindows :
        /\ call' = [op |-> "slice_array", window |-> win, index |-> 0, value |-> None]
        /\ ra' = slice_array(ra, win)
    /\ raised' = "none"
    /\ UNCHANGED <<readerVars, genVars, fuseVars, ds, out, hom>>

ToRioDatasetAny == ToRioDatasetOf(WriteWindows \cup PartialWindows)

NextSlice ==
    \/ FromRioDataset
    \/ SliceArray
    \/ ToRioDatasetAny

SpecSlice == InitSlice /\ [][NextSlice]_vars

(***************************************************************************)
(* The block tasks: _process_block, run by the caller (threads=1) or by    *)
(* the threads of the worker pool.                                         *)
(***************************************************************************)
\* a task moves on; poolVars other than task, and history, are left alone
step(t, pc) ==
    /\ task' = [task EXCEPT ![t].pc = pc]
    /\ UNCHANGED <<config, proc, ac_finished, ac_waiter, history>>

\* _process_block returns or raises: the future is finished, and
\* as_completed, once it waits, is notified in the order of completion
finish(t, exc) ==
    /\ task' = [task EXCEPT ![t].pc = IF exc = "none" THEN "done" ELSE "failed",
                            ![t].exc = exc]
    /\ ac_waiter' = IF proc.pc = "wait" THEN Append(ac_waiter, t) ELSE ac_waiter
    /\ history' = IF exc # "none" /\ history.first_failed = 0
                  THEN [history EXCEPT !.first_failed = t,
                                       !.submitted_then = IF proc.pc = "run" THEN t
                                                          ELSE Len(task)]
                  ELSE history
    /\ UNCHANGED <<config, proc, ac_finished>>

\* the next block in line is started: by a free thread of the pool, or by the
\* caller's loop once the block before it has returned
TaskStart ==
    /\ \E t \in 1..Len(task) :
        /\ task[t].pc = "pending"
        /\ \A u \in 1..(t - 1) : task[u].pc # "pending"
        /\ IF proc.pc = "run"
           THEN \A u \in 1..(t - 1) : task[u].pc = "done"
           ELSE /\ proc.pc \in {"submit", "wait", "shutdown"}
                /\ Cardinality(Running) < config.threads
        /\ step(t, "lock_src")
    /\ UNCHANGED <<arrayVars, readerVars, genVars, raised, fileVars, lockVars, read_log, faults>>

\* read: with self._src_lock
TaskLockSrc ==
    /\ \E t \in 1..Len(task) :
        /\ task[t].pc = "lock_src"
        /\ lock_free(src_lock)
        /\ src_lock' = t
        /\ step(t, "read_src")
    /\ UNCHANGED <<arrayVars, readerVars, genVars, raised, fileVars, ref_lock, write_lock,
                   param_lock, read_log, faults>>

\* read: the source block is read, or the read raises, and the lock is left
TaskReadSrc ==
    /\ \E t \in 1..Len(task) :
        /\ task[t].pc = "read_src"
        /\ \/ /\ step(t, "lock_ref")
              /\ src_lock' = lock_exit(t, "none")
              /\ read_log' = read_log \cup
                    {[im |-> "src", band_i |-> task[t].bp.band_i,
                      index |-> read_indexes(task[t].bp).src]}
              /\ UNCHANGED faults
           \/ /\ faults < MaxFaults
              /\ faults' = faults + 1
              /\ finish(t, "RasterioIOError")
              /\ src_lock' = lock_exit(t, "RasterioIOError")
              /\ UNCHANGED read_log
    /\ UNCHANGED <<arrayVars, readerVars, genVars, raised, fileVars, ref_lock, write_lock,
                   param_lock>>

\* read: with self._ref_lock
TaskLockRef ==
    /\ \E t \in 1..Len(task) :
        /\ task[t].pc = "lock_ref"
        /\ lock_free(ref_lock)
        /\ ref_lock' = t
        /\ step(t, "read_ref")
    /\ UNCHANGED <<arrayVars, readerVars, genVars, raised, fileVars, src_lock, write_lock,
                   param_lock, read_log, faults>>

\* read: the reference block is read and the lock is left; the models are
\* then fitted and applied, outside any lock
TaskReadRef ==
    /\ \E t \in 1..Len(task) :
        /\ task[t].pc = "read_ref"
        /\ ref_lock' = lock_exit(t, "none")
        /\ step(t, "lock_write")
        /\ read_log' = read_log \cup
              {[im |-> "ref", band_i |-> task[t].bp.band_i,
                index |-> read_indexes(task[t].bp).ref]}
    /\ UNCHANGED <<arrayVars, readerVars, genVars, raised, fileVars, src_lock, write_lock,
                   param_lock, faults>>

\* _process_block: with self._write_lock
TaskLockWrite ==
    /\ \E t \in 1..Len(task) :
        /\ task[t].pc = "lock_write"
        /\ lock_free(write_lock)
        /\ write_lock' = t
        /\ step(t, "write_out")
    /\ UNCHANGED <<arrayVars, readerVars, genVars, raised, fileVars, src_lock, ref_lock,
                   param_lock, read_log, faults>>

\* _process_block: the corrected block is written to its band of the output
\* image, or to_rio_dataset raises, and the lock is left
TaskWriteOut ==
    /\ \E t \in 1..Len(task) :
        LET bp == task[t].bp
            error == to_rio_dataset_error(bp.src_out_block, self.src_im.shape)
        IN  /\ task[t].pc = "write_out"
            /\ write_lock' = lock_exit(t, error)
            /\ IF error # "none"
               THEN /\ finish(t, error)
                    /\ UNCHANGED out_data
               ELSE /\ out_data' = to_rio_dataset(out_data, bp.band_i + 1,
                                                  bp.src_out_block, self.src_im.shape, t)
                    /\ IF config.param_image
                       THEN step(t, "lock_param")
                       ELSE finish(t, "none")
    /\ UNCHANGED <<arrayVars, readerVars, genVars, raised, homo_file, param_file, out_im,
                   param_im, param_data, overviews, src_lock, ref_lock, param_lock,
                   read_log, faults>>

\* _process_block: with self._param_lock
TaskLockParam ==
    /\ \E t \in 1..Len(task) :
        /\ task[t].pc = "lock_param"
        /\ lock_free(param_lock)
        /\ param_lock' = t
        /\ step(t, "write_param")
    /\ UNCHANGED <<arrayVars, readerVars, genVars, raised, fileVars, src_lock, ref_lock,
                   write_lock, read_log, faults>>

\* _process_block: the parameter block is written to its bands of the
\* parameter image, or to_rio_dataset raises, and the lock is left
TaskWriteParam ==
    /\ \E t \in 1..Len(task) :
        LET bp == task[t].bp
            error == to_rio_dataset_error(param_out_block(bp), param_shape)
        IN  /\ task[t].pc = "write_param"
            /\ param_lock' = lock_exit(t, error)
            /\ finish(t, error)
            /\ param_data' = IF error # "none" THEN param_data
                             ELSE write_params(param_data,
                                      param_indexes(param_ra_count, bp.band_i), bp.band_i)
    /\ UNCHANGED <<arrayVars, readerVars, genVars, raised, homo_file, param_file, out_im,
                   param_im, out_data, overviews, src_lock, ref_lock, write_lock,
                   read_log, faults>>

Next ==
    \/ Construct
    \/ Enter
    \/ Exit
    \/ Process
    \/ Submit
    \/ AsCompleted
    \/ Result
    \/ ProcessReturn
    \/ ProcessRaise
    \/ TaskStart
    \/ TaskLockSrc
    \/ TaskReadSrc
    \/ TaskLockRef
    \/ TaskReadRef
    \/ TaskLockWrite
    \/ TaskWriteOut
    \/ TaskLockParam
    \/ TaskWriteParam

Spec == Init /\ [][Next]_vars

SpecFiles == InitFiles /\ [][Next]_vars

(***************************************************************************)
(* SpecFair: process() on the pairs of one band, with the steps of         *)
(* process() and of its block tasks taken sooner or later: a thread that   *)
(* can run is scheduled, and each read and write returns or raises.        *)
(***************************************************************************)
InitFair ==
    /\ Init
    /\ Len(src_file.colorinterp) = 1
    /\ Len(ref_file.colorinterp) = 1

\* the states in which Submit can be taken: block_pairs has a block pair
\* left to yield, or raises when it is first advanced
SubmitEnabled ==
    /\ proc.pc = "submit"
    /\ \/ block_pairs_error(self, config.overlap, config.max_block_mem) # "none"
       \/ proc.n < num_block_pairs(self, config.overlap, config.max_block_mem)

\* what process() and the block tasks do after the submissions
ProcessSteps ==
    \/ AsCompleted
    \/ Result
    \/ ProcessReturn
    \/ ProcessRaise
    \/ TaskStart
    \/ TaskLockSrc
    \/ TaskReadSrc
    \/ TaskLockRef
    \/ TaskReadRef
    \/ TaskLockWrite
    \/ TaskWriteOut
    \/ TaskLockParam
    \/ TaskWriteParam

\* weak fairness of the steps of process() and of the tasks.  That of Submit
\* is written out: Submit is enabled exactly in the states SubmitEnabled and
\* every Submit step changes proc, so that WF_vars(Submit) asks that Submit
\* is disabled again and again or taken again and again; a behaviour has
\* finitely many Submit steps, which leaves the former.
SpecFair ==
    /\ InitFair
    /\ [][Next]_vars
    /\ WF_vars(ProcessSteps)
    /\ []<>~SubmitEnabled

(***************************************************************************)
(* SpecOverviews: Spec on an image pair large enough for an overview       *)
(* level, with build_overviews also called by hand, before or after        *)
(* process(), for several limits on the levels.                            *)
(***************************************************************************)
\* max_num_levels and min_level_pixels of the calls by hand
OvwArgs ==
    {<<default_max_num_levels, default_min_level_pixels>>,
     <<default_max_num_levels, 1>>, <<default_max_num_levels, 2>>,
     <<default_max_num_levels, 3>>, <<1, 1>>}

BuildOverviewsAny == BuildOverviewsOf(OvwArgs)

InitOverviews ==
    /\ src_file = [shape |-> <<4, 6>>, res |-> 2, org |-> <<0, 0>>,
                   colorinterp |-> <<"gray">>]
    /\ ref_file = [shape |-> <<3, 4>>, res |-> 3, org |-> <<0, 0>>,
                   colorinterp |-> <<"gray">>]
    /\ homo_file = "absent"
    /\ param_file = "absent"
    /\ proc_crs_arg = "auto"
    /\ obj = "none"
    /\ self = NoSelf
    /\ src_state = "none"
    /\ ref_state = "none"
    /\ ctx = "out"
    /\ gen = NoGen
    /\ yielded = << >>
    /\ raised = "none"
    /\ InitFuse
    /\ InitNoArray

NextOverviews == Next \/ BuildOverviewsAny

SpecOverviews == InitOverviews /\ [][NextOverviews]_vars

(***************************************************************************)
(* Claims about block_pairs (SpecBlocks).                                  *)
(***************************************************************************)
proc_in(bp) == IF self.proc_crs = "ref" THEN bp.ref_in_block ELSE bp.src_in_block

proc_out(bp) == IF self.proc_crs = "ref" THEN bp.ref_out_block ELSE bp.src_out_block

Bands == 0..(Len(self.src_bands) - 1)

OfBand(b) == {i \in 1..Len(yielded) : yielded[i].band_i = b}

\* C1: in every band the proc-CRS out windows of the yielded block pairs are
\* pairwise disjoint and lie inside the proc window, and once the iteration
\* has ended their union is exactly the proc window.
C1_OutWindowsTile ==
    \A b \in Bands :
        /\ \A i, j \in OfBand(b) :
              i # j => Pixels(proc_out(yielded[i])) \cap Pixels(proc_out(yielded[j])) = {}
        /\ \A i \in OfBand(b) :
              Pixels(proc_out(yielded[i])) \subseteq Pixels(proc_win_of(self))
        /\ gen.pc = "done" =>
              UNION {Pixels(proc_out(yielded[i])) : i \in OfBand(b)}
                  = Pixels(proc_win_of(self))

C1_Witness ==
    /\ gen.pc = "done"
    /\ gen.overlap = <<1, 2>>
    /\ Len(self.src_bands) = 2
    /\ Cardinality(OfBand(1)) >= 4

\* the place of the i-th yielded block pair in the grid of blocks of its band
NumCols == Len(ul_col_range(self, gen.overlap, gen.block_shape))

NumRows == Len(ul_row_range(self, gen.overlap, gen.block_shape))

GridRow(i) == ((i - 1) % (NumRows * NumCols)) \div NumCols

GridCol(i) == ((i - 1) % (NumRows * NumCols)) % NumCols

\* block pairs i and j of one band are neighbours along a row (j is the next
\* block to the right of i) or along a column (j is the next block below i)
RightOf(i, j) ==
    /\ yielded[i].band_i = yielded[j].band_i
    /\ GridRow(i) = GridRow(j)
    /\ GridCol(j) = GridCol(i) + 1

Below(i, j) ==
    /\ yielded[i].band_i = yielded[j].band_i
    /\ GridCol(i) = GridCol(j)
    /\ GridRow(j) = GridRow(i) + 1

\* the number of columns (rows) the in windows of i and j have in common
ColsInCommon(i, j) ==
    proc_in(yielded[i]).col_off + proc_in(yielded[i]).width
        - proc_in(yielded[j]).col_off

RowsInCommon(i, j) ==
    proc_in(yielded[i]).row_off + proc_in(yielded[i]).height
        - proc_in(yielded[j]).row_off

written_window(bp) == bounded_window_slices(bp.src_out_block, self.src_im.shape)

Tasks == 1..Len(task)

InSection(pc) == {t \in Tasks : task[t].pc = pc}

Failed == {t \in Tasks : task[t].pc = "failed"}

Pool == config.threads > 1

\* C4: in every interleaving of the block tasks at most one task is inside
\* a read of the source image, at most one inside a read of the reference
\* image, at most one inside a write to the corrected image and at most one
\* inside a write to the parameter image.
C4_MutualExclusion ==
    \A pc \in {"read_src", "read_ref", "write_out", "write_param"} :
        Cardinality(InSection(pc)) <= 1

\* two tasks of a pool contend for the write lock
C4_Witness ==
    /\ Pool
    /\ \E t, u \in Tasks : task[t].pc = "write_out" /\ task[u].pc = "lock_write"

\* C5: whenever process() leaves with an exception raised after the output
\* images were opened for writing, they are closed by the time the with block
\* of the driver has been left.
C5_OutputsClosedOnErrorExit ==
    (ctx = "exited" /\ proc.pc = "raised" /\ out_im # "none")
        => out_im = "closed" /\ param_im \in {"none", "closed"}

C7_StopsSubmittingOnFailure ==
    history.first_failed # 0 =>
        /\ proc.pc # "returned"
        /\ \A t \in Tasks : t > history.submitted_then => task[t].pc = "pending"

\* C7 as amended: after a failure of a block task process() does not return
\* normally. With threads=1 no block after the failed one is started. With a
\* pool the blocks are submitted whether or not a task has failed, and the
\* exception reaches the caller once every block has been submitted and
\* every task has run to its end.
C7_FailureSurfacesAfterAllTasks ==
    /\ history.first_failed # 0 => proc.pc # "returned"
    /\ (proc.pc = "raised" /\ proc.exc # 0) =>
        IF Pool
        THEN /\ Len(task) = num_block_pairs(self, config.overlap, config.max_block_mem)
             /\ \A t \in Tasks : Finished(t)
        ELSE /\ \A t \in Tasks : t < proc.exc => task[t].pc = "done"
             /\ \A t \in Tasks : t > proc.exc => task[t].pc = "pending"

\* process() of a pool raises after a block submitted later than the first
\* failure has been processed
C7_Witness ==
    /\ Pool
    /\ proc.pc = "raised"
    /\ \E t \in Tasks : t > history.submitted_then /\ task[t].pc = "done"

\* the corrected image after the first n block pairs, processed in order
RECURSIVE sequential_out(_)
sequential_out(n) ==
    IF n = 0 THEN create_out_data
    ELSE LET bp == block_pairs(self, config.overlap, config.max_block_mem, n)
         IN  to_rio_dataset(sequential_out(n - 1), bp.band_i + 1, bp.src_out_block,
                            self.src_im.shape, n)

RefCoversSrc ==
    /\ bounds(ref_file).left <= bounds(src_file).left
    /\ bounds(ref_file).right >= bounds(src_file).right
    /\ bounds(ref_file).top <= bounds(src_file).top
    /\ bounds(ref_file).bottom >= bounds(src_file).bottom

\* C9: if the reference does not cover the source, construction fails with
\* ImageContentError, no output file is ever created or opened, and the
\* source and reference images are left closed.
C9_UncoveredSourceRejected ==
    ~RefCoversSrc =>
        /\ obj # "constructed"
        /\ homo_file = "absent" /\ param_file = "absent"
        /\ out_im = "none" /\ param_im = "none"
        /\ obj = "failed" =>
            /\ raised = "ImageContentError"
            /\ src_state = "closed" /\ ref_state = "closed"

NonAlpha(im) == {b \in DOMAIN im.colorinterp : im.colorinterp[b] # "alpha"}

\* construction has failed on a source that the reference does not cover
\* and that has no more bands than the reference
C9_Witness ==
    /\ obj = "failed"
    /\ ~RefCoversSrc
    /\ Cardinality(NonAlpha(src_file)) <= Cardinality(NonAlpha(ref_file))

\* the non-alpha band of an image that has i non-alpha bands before it
NthNonAlpha(im, i) ==
    CHOOSE b \in NonAlpha(im) : Cardinality({c \in NonAlpha(im) : c < b}) = i

\* C10: if the source has more non-alpha bands than the reference,
\* construction fails with ImageContentError; if it has fewer (and the
\* reference covers it) construction succeeds, every band_i of a block pair
\* is an index into both lists of non-alpha bands, and a block with band_i
\* reads non-alpha band band_i of the source and of the reference.
C10_BandPairing ==
    LET src_count == Cardinality(NonAlpha(src_file))
        ref_count == Cardinality(NonAlpha(ref_file))
    IN  /\ src_count > ref_count =>
            /\ obj # "constructed"
            /\ obj = "failed" => raised = "ImageContentError"
        /\ (src_count < ref_count /\ RefCoversSrc) => obj # "failed"
        /\ \A t \in Tasks :
            task[t].bp.band_i \in 0..(src_count - 1) \cap 0..(ref_count - 1)
        /\ \A r \in read_log :
            /\ r.band_i \in 0..(src_count - 1)
            /\ r.index = NthNonAlpha(IF r.im = "src" THEN src_file ELSE ref_file,
                                     r.band_i)

\* a block of a source with fewer bands than the reference has been read
C10_Witness ==
    /\ Cardinality(NonAlpha(src_file)) < Cardinality(NonAlpha(ref_file))
    /\ \E r \in read_log : r.im = "ref" /\ r.index > r.band_i + 1

(***************************************************************************)
(* Claims about construction (SpecConstruct).                              *)
(***************************************************************************)
\* the source pixel is no larger than the reference pixel
SrcPixelSmaller == src_file.res * src_file.res <= ref_file.res * ref_file.res

\* C11: a constructed reader has proc_crs ref when the argument was auto
\* and the source pixel area is at most the reference pixel area, src when
\* it was auto and the source pixel is larger, and the argument itself when
\* that was src or ref, whatever the pixel areas; it never has auto.
C11_ProcCrsResolved ==
    obj = "constructed" =>
        /\ self.proc_crs \in {"src", "ref"}
        /\ proc_crs_arg = "auto" =>
                self.proc_crs = IF SrcPixelSmaller THEN "ref" ELSE "src"
        /\ proc_crs_arg # "auto" => self.proc_crs = proc_crs_arg

\* readers constructed with a forced value against the heuristic, and with
\* auto on images of equal pixel area
C11_Witness ==
    /\ obj = "constructed"
    /\ \/ proc_crs_arg = "src" /\ SrcPixelSmaller
       \/ proc_crs_arg = "ref" /\ ~SrcPixelSmaller
       \/ proc_crs_arg = "auto" /\ src_file.res = ref_file.res

(***************************************************************************)
(* Claims about the output of process() (Spec).                            *)
(***************************************************************************)
\* C12: with N source bands, plane p (0 gain, 1 offset, 2 R2) of source
\* band b is written to band p*N + b + 1 of the parameter image; that is a
\* band of the image, one of 1..3N, and no two pairs (p, b) are written to
\* the same band.
C12_ParamLayout ==
    LET N == Len(self.src_bands)
    IN  /\ \A w \in param_data :
            /\ w.plane \in 0..2 /\ w.band_i \in 0..(N - 1)
            /\ w.index = w.plane * N + w.band_i + 1
            /\ w.index \in 1..(3 * N)
            /\ w.index <= param_im_count
        /\ \A w1, w2 \in param_data :
            w1.index = w2.index => w1.plane = w2.plane /\ w1.band_i = w2.band_i

\* process() has returned with the parameters of both bands of a two band
\* source written
C12_Witness ==
    /\ proc.pc = "returned"
    /\ Len(self.src_bands) = 2
    /\ {<<w.plane, w.band_i>> : w \in param_data} = (0..2) \X (0..1)

\* a call of process() that got past the checks of the pair and the kernel
ProcessCalled ==
    /\ proc.pc = "idle" /\ proc'.pc # "idle"
    /\ raised' \notin {"IoError", "ConfigError"}

\* C13 as claimed: process() with overwrite=false raises FileExistsError if
\* the corrected image file or the parameter image file exists, and then no
\* output file is created, truncated or written.
C13_ExistingFileRefused ==
    [][(ProcessCalled /\ ~config'.overwrite
        /\ (homo_file # "absent" \/ param_file # "absent"))
       => (raised' = "FileExistsError" /\ proc'.pc = "raised" /\ UNCHANGED fileVars)]_vars

\* C13 as amended: process() with overwrite=false raises FileExistsError if
\* the corrected image file exists, or if a parameter image is asked for
\* and the parameter image file exists, and then no output file is created,
\* truncated or written.
C13_ExistingOutputRefused ==
    [][(ProcessCalled /\ ~config'.overwrite
        /\ (homo_file # "absent" \/ (config'.param_image /\ param_file # "absent")))
       => (raised' = "FileExistsError" /\ proc'.pc = "raised" /\ UNCHANGED fileVars)]_vars

\* process() has refused to overwrite a parameter image file, the corrected
\* image file being absent
C13_Witness ==
    /\ raised = "FileExistsError"
    /\ proc.pc = "raised"
    /\ ~config.overwrite /\ config.param_image
    /\ homo_file = "absent" /\ param_file = "old"
    /\ out_im = "none" /\ param_im = "none"

\* a kernel shape with an even or zero side, or too small for gain_offset
BadKernel(kernel_shape, method) ==
    \E i \in 1..2 :
        \/ kernel_shape[i] % 2 = 0
        \/ method = "gain_offset" /\ kernel_shape[i] < 5

\* C14: process() called on an open pair with a kernel shape that has an
\* even or zero side, or with a gain_offset kernel that has a side below 5,
\* raises ConfigError, and no output file is created and no block is read,
\* fitted or written.
C14_BadKernelRejected ==
    (proc.pc # "idle" /\ raised # "IoError"
     /\ BadKernel(config.kernel_shape, config.method))
        => /\ raised = "ConfigError" /\ proc.pc = "raised"
           /\ homo_file = "absent" /\ param_file = "absent"
           /\ out_im = "none" /\ param_im = "none"
           /\ task = << >> /\ read_log = {} /\ param_data = {}

\* process() has rejected an odd gain_offset kernel smaller than 5 by 5, and
\* an even kernel
C14_Witness ==
    /\ raised = "ConfigError"
    /\ ctx = "in"
    /\ \/ config.method = "gain_offset" /\ config.kernel_shape = <<3, 3>>
       \/ config.method = "gain" /\ config.kernel_shape = <<2, 1>>

(***************************************************************************)
(* Claims about the life of a reader (SpecLifecycle).                      *)
(***************************************************************************)
\* the source or the reference dataset is not open
PairClosed == src_state # "open" \/ ref_state # "open"

\* a method is called on the reader: block_pairs, process, read or
\* build_overviews
MethodCalled ==
    \/ gen.pc = "none" /\ gen'.pc # "none"
    \/ proc.pc = "idle" /\ proc'.pc # "idle"
    \/ history'.calls # history.calls

\* C15, the states: a constructed pair is closed until its context is
\* entered, open inside the context and closed once the context is left,
\* also when the body raised.
C15_OpenInsideContext ==
    obj = "constructed" =>
        /\ ctx = "in" => src_state = "open" /\ ref_state = "open"
        /\ ctx # "in" => src_state = "closed" /\ ref_state = "closed"

\* C15, the calls: read, block_pairs, process and build_overviews called on
\* a closed pair raise IoError, and read and write no dataset.
C15_ClosedPairRefuses ==
    [][(PairClosed /\ MethodCalled)
       => /\ raised' = "IoError"
          /\ UNCHANGED <<fileVars, read_log, yielded, task, src_state, ref_state>>]_vars

\* C15: the states and the calls together.
C15_Lifecycle == []C15_OpenInsideContext /\ C15_ClosedPairRefuses

\* read has refused a block pair, yielded inside the context, after the
\* context was left by an exception of process()
C15_Witness ==
    /\ ctx = "exited"
    /\ proc.pc = "raised"
    /\ Len(yielded) > 0
    /\ history.calls > 0
    /\ raised = "IoError"
    /\ read_log = {}

(***************************************************************************)
(* Claims about the block shape (SpecBlocks).                              *)
(***************************************************************************)
\* the halvings of the two sides of the processing window that bring a
\* block within the memory budget of the call
Halvings ==
    LET proc_win == proc_win_of(self)
    IN  halve_block_shape(<<proc_win.height, proc_win.width>>, <<0, 0>>,
                          gen.max_block_mem, mem_scale(self))

\* a side of the halved window is shorter than one pixel
SubPixelBlock ==
    LET proc_win == proc_win_of(self)
    IN  \/ proc_win.height < pow2(Halvings[1])
        \/ proc_win.width < pow2(Halvings[2])

\* a side of the block, in whole pixels, is shorter than the overlap there
SubOverlapBlock ==
    LET proc_win == proc_win_of(self)
    IN  \/ np_ceil(proc_win.height, pow2(Halvings[1])) < gen.overlap[1]
        \/ np_ceil(proc_win.width, pow2(Halvings[2])) < gen.overlap[2]

\* C17: block_pairs on an open pair, when the auto block shape is shorter
\* than a pixel or shorter than the overlap in a dimension, raises
\* BlockSizeError and has yielded no block pair.
C17_SmallBlockRefused ==
    (gen.pc # "none" /\ raised # "IoError" /\ (SubPixelBlock \/ SubOverlapBlock))
        => /\ raised = "BlockSizeError"
           /\ gen.pc = "raised"
           /\ yielded = << >>

\* both cases happen: a block shorter than a pixel, and a block of whole
\* pixels shorter than the overlap
C17_Witness ==
    /\ gen.pc = "raised"
    /\ raised = "BlockSizeError"
    /\ ~SubPixelBlock
    /\ SubOverlapBlock
    /\ gen.max_block_mem # inf

C17_WitnessSubPixel ==
    /\ gen.pc = "raised"
    /\ raised = "BlockSizeError"
    /\ SubPixelBlock

(***************************************************************************)
(* Claims about RasterArray and the pixels of a block (SpecArray).         *)
(***************************************************************************)
\* the nodata setter is called with a value, on an array that has a nodata
\* value
NodataChanged ==
    /\ call'.op = "nodata_setter"
    /\ ra.nodata # None
    /\ call'.value # None

\* C18 as claimed: setting a new nodata value on an array that has one
\* leaves the mask as it was and leaves the new value in every cell that
\* was invalid; setting None makes every cell valid.
C18_MaskUnchanged ==
    [][/\ NodataChanged =>
            /\ mask(ra') = mask(ra)
            /\ \A p \in Cells(ra.shape) : ~mask(ra)[p] => ra'.array[p] = call'.value
       /\ (call'.op = "nodata_setter" /\ call'.value = None) =>
            \A p \in Cells(ra.shape) : mask(ra')[p]]_vars

\* C18: setting a new nodata value v on an array that has one leaves v in
\* every cell that was invalid, and leaves valid the cells that were valid
\* and do not hold v: the mask is as it was when no valid cell holds v.
\* Setting None makes every cell valid.
C18_MaskLessNewValue ==
    [][/\ NodataChanged =>
            /\ \A p \in Cells(ra.shape) :
                   mask(ra')[p] <=> (mask(ra)[p] /\ ~nan_equals(ra.array[p], call'.value))
            /\ \A p \in Cells(ra.shape) : ~mask(ra)[p] => ra'.array[p] = call'.value
            /\ ra'.nodata = call'.value
       /\ (call'.op = "nodata_setter" /\ call'.value = None) =>
            \A p \in Cells(ra.shape) : mask(ra')[p]]_vars

\* the nodata value of an array, read from a dataset of valid pixels, was
\* set to 0, the value that its one, valid, cell holds: the cell is
\* invalid now
C18_Witness ==
    /\ call.op = "nodata_setter"
    /\ call.value = 0
    /\ ~ds.masked
    /\ ds.nodata = None
    /\ ra.off = <<0, 0>>
    /\ ra.shape = <<1, 1>>
    /\ ~mask(ra)[<<0, 0>>]

\* from_rio_dataset has returned the array ra for the window call.window
ArrayRead == call.op = "from_rio_dataset" /\ raised = "none"

\* the pixel of the dataset under the cell p of the array read
UnderCell(p) == <<call.window.row_off + p[1], call.window.col_off + p[2]>>

\* C19 as claimed: the array read for a window has the window's height and
\* width, every cell inside the dataset equals the pixel of the dataset
\* under it, and every cell outside the dataset is nodata.
C19_WindowRead ==
    ArrayRead =>
        /\ ra.shape = <<call.window.height, call.window.width>>
        /\ DOMAIN ra.array = Cells(ra.shape)
        /\ \A p \in Cells(ra.shape) :
               IF UnderCell(p) \in Cells(ds.shape)
               THEN ra.array[p] = ds.data[<<1, UnderCell(p)[1], UnderCell(p)[2]>>]
               ELSE nan_equals(ra.array[p], ra.nodata)

\* C19: the array read for a window has the window's height and width,
\* every cell inside the dataset equals the pixel of the dataset under it,
\* or is nodata if the mask of the dataset hides that pixel, and every cell
\* outside the dataset is nodata.
C19_WindowReadMasked ==
    ArrayRead =>
        /\ ra.shape = <<call.window.height, call.window.width>>
        /\ DOMAIN ra.array = Cells(ra.shape)
        /\ \A p \in Cells(ra.shape) :
               IF UnderCell(p) \in Cells(ds.shape)
               THEN IF ds.masked /\ ~ds.dmask[UnderCell(p)]
                    THEN nan_equals(ra.array[p], ra.nodata)
                    ELSE ra.array[p] = ds.data[<<1, UnderCell(p)[1], UnderCell(p)[2]>>]
               ELSE nan_equals(ra.array[p], ra.nodata)

\* an array was read for a window that goes over all four edges of a
\* dataset with a mask
C19_Witness ==
    /\ ArrayRead
    /\ call.window = Window(-1, -1, 4, 4)
    /\ ds.masked
    /\ ra.array[<<1, 1>>] = 0
    /\ ra.array[<<1, 2>>] = NaN
    /\ ra.array[<<0, 0>>] = NaN

\* the read of a window beside the dataset was refused by the library
C19_WitnessBeside ==
    /\ call.op = "from_rio_dataset"
    /\ raised = "RasterioIOError"
    /\ ra = NoArray

\* to_rio_dataset was called last, with call.index and call.window
WriteTried == call.op = "to_rio_dataset"

\* the array cropped to the window, itself cropped to the dataset, has a
\* side of length zero
ZeroLengthCrop ==
    LET bounded == bounded_window_slices(call.window, out.shape)
        rows == {r \in 0..(ra.shape[1] - 1) :
                    /\ ra.off[1] + r >= bounded.row_off
                    /\ ra.off[1] + r < bounded.row_off + bounded.height}
        cols == {c \in 0..(ra.shape[2] - 1) :
                    /\ ra.off[2] + c >= bounded.col_off
                    /\ ra.off[2] + c < bounded.col_off + bounded.width}
    IN  rows = {} \/ cols = {}

\* C20 as claimed: to_rio_dataset raises the format error if the CRS of
\* the dataset is not that of the array, if the band index is above the
\* band count of the dataset, or if the cropped array has a side of length
\* zero, and nothing is written then.
C20_FormatErrorRaised ==
    (WriteTried /\ (out.crs # ra.crs \/ call.index > out.count \/ ZeroLengthCrop))
        => raised = "ImageFormatError" /\ Fresh(out)

\* C20: to_rio_dataset raises the format error if the CRS of the dataset
\* is not that of the array; otherwise it raises ValueError if the band
\* index is above the band count of the dataset or if the cropped array
\* has a side of length zero.  Nothing is written in these cases.
C20_WriteRefused ==
    (WriteTried /\ (out.crs # ra.crs \/ call.index > out.count \/ ZeroLengthCrop))
        => /\ raised = IF out.crs # ra.crs THEN "ImageFormatError" ELSE "ValueError"
           /\ Fresh(out)

\* a write to an existing band of a dataset of the array's CRS was refused
\* for a window that misses the array
C20_Witness ==
    /\ WriteTried
    /\ out.crs = ra.crs
    /\ call.index <= out.count
    /\ ~EmptyBounded(call.window, out)
    /\ ZeroLengthCrop
    /\ raised = "ValueError"
    /\ Fresh(out)

\* a write was refused for the CRS, and one for the band index
C20_WitnessCrs == WriteTried /\ out.crs # ra.crs /\ raised = "ImageFormatError"

C20_WitnessIndex ==
    WriteTried /\ out.crs = ra.crs /\ call.index > out.count /\ raised = "ValueError"

\* a write went through and left the cells of the array in the dataset
C20_WitnessWritten ==
    /\ WriteTried
    /\ raised = "none"
    /\ ~Fresh(out)
    /\ \E p \in Pixels(call.window) :
           out.data[<<1, p[1], p[2]>>] = ra.array[<<p[1] - ra.off[1], p[2] - ra.off[2]>>]

\* _process_block has written the window call.window of the corrected image
BlockWritten == call.op = "process_block"

\* the pixel of the corrected image holds the nodata value of its file
OutIsNodata(p) ==
    out.nodata # None /\ nan_equals(out.data[<<1, p[1], p[2]>>], out.nodata)

C16_WitnessGainNodata ==
    /\ BlockWritten
    /\ call.value = NaN
    /\ out.nodata = NaN
    /\ \E p \in Pixels(call.window) : dataset_mask(ds)[p] /\ ~dataset_mask(out)[p]

\* a valid source pixel is nodata in the corrected image: its corrected
\* value is the nodata value of the file
C16_WitnessCollision ==
    /\ BlockWritten
    /\ call.value = 1
    /\ out.nodata = 0
    /\ \E p \in Pixels(call.window) : dataset_mask(ds)[p] /\ ~dataset_mask(out)[p]

\* the corrected image has no nodata value: the invalid pixels hold NaN
C16_WitnessNoNodata ==
    /\ BlockWritten
    /\ out.nodata = None
    /\ \E p \in Pixels(call.window) :
           ~dataset_mask(ds)[p] /\ out.data[<<1, p[1], p[2]>>] = NaN

(***************************************************************************)
(* Claims about slices of a RasterArray (SpecSlice).                       *)
(***************************************************************************)
\* the cells of the array ra lie under every pixel of the window
Covers(win) ==
    /\ win.row_off >= ra.off[1]
    /\ win.col_off >= ra.off[2]
    /\ win.row_off + win.height <= ra.off[1] + ra.shape[1]
    /\ win.col_off + win.width <= ra.off[2] + ra.shape[2]

\* C21: slicing an array over a window that it does not cover raises
\* ValueError, and writing it to a window that, cropped to the dataset, it
\* does not cover raises ValueError and writes nothing.
C21_OutsideRefused ==
    [][/\ (call'.op = "slice_array" /\ ~Covers(call'.window))
            => raised' = "ValueError" /\ ra' = ra
       /\ (call'.op = "to_rio_dataset"
              /\ ~Covers(bounded_window_slices(call'.window, out.shape)))
            => raised' = "ValueError" /\ out' = out]_vars

\* what the code does: a slice over a window the array covers in part is
\* the part covered, and no error
C21_SliceClipped ==
    [][call'.op = "slice_array" =>
          /\ raised' = "none"
          /\ ra'.shape = <<fmin(call'.window.height,
                                ra.off[1] + ra.shape[1] - call'.window.row_off),
                           fmin(call'.window.width,
                                ra.off[2] + ra.shape[2] - call'.window.col_off)>>]_vars

\* an array of one cell was written, without error, to a window of two by
\* two pixels: its cell is in all four
C21_WitnessStretched ==
    /\ call.op = "to_rio_dataset"
    /\ call.window = Window(0, 0, 2, 2)
    /\ ra.shape = <<1, 1>>
    /\ ra.off = <<0, 0>>
    /\ raised = "none"
    /\ \A p \in Cells(out.shape) : out.data[<<1, p[1], p[2]>>] = ra.array[<<0, 0>>]

(***************************************************************************)
(* C22: band-major order of the block tasks.                               *)
(***************************************************************************)
\* the block tasks of band b, in the order process() holds them
BandTasks(b) == {t \in Tasks : task[t].bp.band_i = b}

\* the block pair of task t with its band index set aside
TaskWindows(t) == [task[t].bp EXCEPT !.band_i = 0]

\* the tasks are held band by band: no task of a later band stands before
\* a task of an earlier band
BandMajor ==
    \A t, u \in Tasks : t < u => task[t].bp.band_i <= task[u].bp.band_i

\* the k-th task of every band has the windows of the k-th task of band 0
SameWindowsPerBand ==
    \A t \in Tasks :
        LET first == CHOOSE f \in BandTasks(task[t].bp.band_i) :
                         \A g \in BandTasks(task[t].bp.band_i) : f <= g
            k == t - first + 1
        IN  /\ k \in BandTasks(0)
            /\ TaskWindows(t) = TaskWindows(k)

\* a task of band b + 1 is held only once band b is complete
BandComplete ==
    \A t \in Tasks :
        task[t].bp.band_i > 0 =>
            Cardinality(BandTasks(task[t].bp.band_i - 1)) = Cardinality(BandTasks(0))

\* with one thread the tasks run one after another in the order held
RunInOrder ==
    proc.pc = "run" =>
        \A t, u \in Tasks : (t < u /\ task[u].pc # "pending") => task[t].pc = "done"

\* C22: the block tasks process() submits or runs are ordered band-major:
\* every block of band b stands before any block of band b + 1, every band
\* has the same sequence of windows, and with one thread the tasks run in
\* exactly that order.
C22_BandMajorOrder ==
    BandMajor /\ SameWindowsPerBand /\ BandComplete /\ RunInOrder

\* two bands of two different blocks each, all four tasks held
C22_Witness ==
    /\ Len(task) = 4
    /\ Cardinality(BandTasks(0)) = 2 /\ Cardinality(BandTasks(1)) = 2
    /\ TaskWindows(1) # TaskWindows(2)
    /\ config.threads = 2

\* the same with one thread, the first block of the second band running
C22_WitnessOneThread ==
    /\ proc.pc = "run" /\ Len(task) = 4
    /\ task[3].bp.band_i = 1 /\ task[3].pc \notin {"pending", "done"}
    /\ TaskWindows(1) # TaskWindows(2)

(***************************************************************************)
(* C23: the block shape and the memory budget.                             *)
(***************************************************************************)
\* block_pairs got a finite, positive max_block_mem and yielded
FiniteBudget ==
    /\ gen.pc \in {"yielding", "done"}
    /\ gen.max_block_mem # inf
    /\ gen.max_block_mem > 0

\* C23 as stated: for a finite positive max_block_mem the whole-pixel block
\* shape returned takes no more than max_block_mem * mem_scale bytes.
C23_BlockWithinBudget ==
    FiniteBudget =>
        gen.block_shape[1] * gen.block_shape[2] * dtype_size * mem_scale(self)[2]
            <= gen.max_block_mem * mem_scale(self)[1]

\* what the halving loop does ensure: the fractional block shape it stops at,
\* before it is rounded up to whole pixels, is within the budget
C23_FractionalShapeWithinBudget ==
    FiniteBudget =>
        LET proc_win == proc_win_of(self)
            div == halve_block_shape(<<proc_win.height, proc_win.width>>, <<0, 0>>,
                                     gen.max_block_mem, mem_scale(self))
        IN  proc_win.height * proc_win.width * dtype_size * mem_scale(self)[2]
                <= gen.max_block_mem * mem_scale(self)[1] * pow2(div[1] + div[2])

\* a block shape rounded up over the budget
C23_WitnessOverBudget ==
    /\ FiniteBudget
    /\ gen.block_shape[1] * gen.block_shape[2] * dtype_size * mem_scale(self)[2]
           > gen.max_block_mem * mem_scale(self)[1]

(***************************************************************************)
(* C24: the number of blocks of a band.                                    *)
(***************************************************************************)
\* the halvings of the two sides the loop of _auto_block_shape made
GenHalvings ==
    LET proc_win == proc_win_of(self)
    IN  halve_block_shape(<<proc_win.height, proc_win.width>>, <<0, 0>>,
                          gen.max_block_mem, mem_scale(self))

\* n, the number of halvings
NumHalvings == GenHalvings[1] + GenHalvings[2]

C24_WitnessDivided ==
    /\ gen.pc = "done"
    /\ NumHalvings = 2
    /\ Cardinality(OfBand(0)) = 4

\* max_block_mem inf and an overlap: the one block of a band
C24_WitnessWhole ==
    /\ gen.pc = "done"
    /\ gen.max_block_mem = inf
    /\ gen.overlap = <<1, 1>>
    /\ Len(yielded) = Len(self.src_bands)
    /\ Len(self.src_bands) = 2

(***************************************************************************)
(* C25: the outer flag of a block pair.                                    *)
(***************************************************************************)
\* the pixels of the proc window that lie along one of its four edges
EdgePixels ==
    LET proc_win == proc_win_of(self)
    IN  {p \in Pixels(proc_win) :
            \/ p[1] = proc_win.row_off
            \/ p[1] = proc_win.row_off + proc_win.height - 1
            \/ p[2] = proc_win.col_off
            \/ p[2] = proc_win.col_off + proc_win.width - 1}

\* the window's upper left equals the proc window's in some dimension, or
\* its bottom right does
TouchesEdge(win) ==
    LET proc_win == proc_win_of(self)
    IN  \/ win.row_off = proc_win.row_off
        \/ win.col_off = proc_win.col_off
        \/ win.row_off + win.height = proc_win.row_off + proc_win.height
        \/ win.col_off + win.width = proc_win.col_off + proc_win.width

\* C25: for every yielded block pair, outer is true if and only if the proc
\* in window touches an edge of the proc window: a corner of it lies on the
\* proc window's corner in some dimension, which is to say that it holds a
\* pixel of the proc window's edge.
C25_OuterIffTouchesEdge ==
    \A i \in 1..Len(yielded) :
        /\ yielded[i].outer <=> TouchesEdge(proc_in(yielded[i]))
        /\ yielded[i].outer <=> Pixels(proc_in(yielded[i])) \cap EdgePixels # {}

\* a band of three by three blocks with an overlap: the block in the middle
\* is not outer, the one yielded before it is
C25_Witness ==
    /\ gen.overlap = <<1, 1>>
    /\ \E i \in 2..Len(yielded) :
        /\ ~yielded[i].outer
        /\ yielded[i - 1].outer
        /\ proc_in(yielded[i]).height > proc_out(yielded[i]).height

(***************************************************************************)
(* C30: the in and out windows of a block pair.                            *)
(***************************************************************************)
\* the row and column one past the window's last
win_br(win) == <<win.row_off + win.height, win.col_off + win.width>>

\* C30: for every yielded block pair the proc out window is non-empty and
\* lies inside the proc in window, which lies inside the proc window; on each
\* of its four sides the in window reaches the overlap beyond the out window,
\* or as far as the edge of the proc window where that is nearer.
C30_InExtendsOutByOverlap ==
    \A i \in 1..Len(yielded) :
        LET in_win == proc_in(yielded[i])
            out_win == proc_out(yielded[i])
            proc_win == proc_win_of(self)
        IN  /\ out_win.height > 0 /\ out_win.width > 0
            /\ Pixels(out_win) \subseteq Pixels(in_win)
            /\ Pixels(in_win) \subseteq Pixels(proc_win)
            /\ in_win.row_off = fmax(out_win.row_off - gen.overlap[1], proc_win.row_off)
            /\ in_win.col_off = fmax(out_win.col_off - gen.overlap[2], proc_win.col_off)
            /\ win_br(in_win)[1] = fmin(win_br(out_win)[1] + gen.overlap[1],
                                        win_br(proc_win)[1])
            /\ win_br(in_win)[2] = fmin(win_br(out_win)[2] + gen.overlap[2],
                                        win_br(proc_win)[2])

\* a block whose in window has the whole overlap on its four sides, after a
\* block whose in window is clipped by the proc window's edge
C30_Witness ==
    /\ gen.overlap = <<1, 1>>
    /\ \E i \in 2..Len(yielded) :
        /\ proc_in(yielded[i]).height = proc_out(yielded[i]).height + 2
        /\ proc_in(yielded[i]).width = proc_out(yielded[i]).width + 2
        /\ \/ proc_in(yielded[i - 1]).row_off = proc_out(yielded[i - 1]).row_off
           \/ proc_in(yielded[i - 1]).col_off = proc_out(yielded[i - 1]).col_off

(***************************************************************************)
(* C26: the overviews (SpecOverviews).                                     *)
(***************************************************************************)
\* the overviews held are those process() built
BuiltByProcess == overviews.built /\ overviews.by = "process"

\* the width or height of an overview of a level: GDAL rounds it up
level_size(length, level) == np_ceil(length, level)

\* the levels are 2^1, 2^2, ..., 2^n
PowersOfTwo(levels) == \A m \in DOMAIN levels : levels[m] = pow2(m)

\* no overview of an image of a shape is smaller than min_level_pixels
AboveMinSize(shape, levels) ==
    \A m \in DOMAIN levels :
        /\ level_size(shape[1], levels[m]) >= overviews.min_level_pixels
        /\ level_size(shape[2], levels[m]) >= overviews.min_level_pixels

\* process() builds overviews only when it returns: every block task is
\* done, none is running, the output images are closed and nothing was raised
C26_BuiltAfterTasks ==
    BuiltByProcess =>
        /\ proc.pc = "returned"
        /\ \A t \in Tasks : task[t].pc = "done"
        /\ out_im = "closed"
        /\ param_im # "open"

\* the levels built are successive powers of two
C26_LevelsPowersOfTwo ==
    overviews.built =>
        PowersOfTwo(overviews.homo_levels) /\ PowersOfTwo(overviews.param_levels)

\* for min_level_pixels a power of two no level is smaller than it
C26_LevelsAboveMinSizePowerOfTwo ==
    (overviews.built /\ overviews.min_level_pixels = pow2(int_log2(overviews.min_level_pixels)))
        => /\ AboveMinSize(self.src_im.shape, overviews.homo_levels)
           /\ AboveMinSize(param_shape, overviews.param_levels)

\* C26 as stated: process() builds overviews only after every block task has
\* finished and the outputs are closed, never when processing failed; the
\* levels built are 2^1..2^n and no level is narrower or lower than
\* min_level_pixels.
C26_OverviewsAfterTasksAboveMinSize ==
    /\ C26_BuiltAfterTasks
    /\ C26_LevelsPowersOfTwo
    /\ overviews.built =>
          /\ AboveMinSize(self.src_im.shape, overviews.homo_levels)
          /\ AboveMinSize(param_shape, overviews.param_levels)

\* build_overviews(min_level_pixels=3) on a corrected image of 4 rows: the
\* level 2 is built, of 2 rows
C26_WitnessBelowMinSize ==
    /\ overviews.built
    /\ overviews.min_level_pixels = 3
    /\ overviews.homo_levels = <<2>>
    /\ level_size(self.src_im.shape[1], 2) = 2

\* process() returned and built the overviews by its defaults
C26_WitnessByProcess ==
    /\ BuiltByProcess
    /\ Len(task) = 2
    /\ config.threads = 2

(***************************************************************************)
(* C29: lock discipline and termination (SpecFair).                        *)
(***************************************************************************)
\* the locks and the sections of a block task they guard
Locks ==
    {[lock |-> src_lock, section |-> "read_src", wait |-> "lock_src"],
     [lock |-> ref_lock, section |-> "read_ref", wait |-> "lock_ref"],
     [lock |-> write_lock, section |-> "write_out", wait |-> "lock_write"],
     [lock |-> param_lock, section |-> "write_param", wait |-> "lock_param"]}

HeldBy(t) == {l \in Locks : l.lock = t}

\* a task holds at most one lock, holds a lock exactly while it is in the
\* section the lock guards, and a task waiting for a lock never holds one:
\* whoever holds a lock can go on
LockDiscipline ==
    /\ \A t \in Tasks :
        /\ Cardinality(HeldBy(t)) <= 1
        /\ \A l \in Locks : l.lock = t <=> task[t].pc = l.section
    /\ \A l \in Locks : l.lock # 0 => l.lock \in Tasks

\* process() has been called and has not left
Busy == proc.pc \in {"run", "submit", "wait", "shutdown"}

\* process() has returned or raised, no lock is held, and every task
\* submitted to the pool has run to its end
Left ==
    /\ proc.pc \in {"returned", "raised"}
    /\ \A l \in Locks : l.lock = 0
    /\ Pool => \A t \in Tasks : Finished(t)

C29_WitnessContended ==
    \E t, u \in Tasks : task[t].pc = "read_src" /\ task[u].pc = "lock_src"

\* ---------------------------------------------------------------------------
\* The legacy sliding-window fit, HomonImBase._find_gain_and_offset_cv, on one
\* row of pixels.  Pixel values are integers; a quotient is kept as the pair
\* <<numerator, denominator>>, so that nothing is rounded: a zero denominator is
\* numpy's inf or nan.
\* ---------------------------------------------------------------------------

\* homonim.py: the internal nodata value
hom_nodata == 0

\* the length of the row of pixels, and the largest pixel value of the source
HomLen == 4
HomMaxValue == 2

\* win_size as (width, height): odd in both dimensions, HomonImBase.__init__
HomWinSizes == {<<3, 1>>, <<5, 1>>}

\* the models (a, b) the reference is made with: reference = a * source + b
HomModels == {<<1, 1>>, <<2, -1>>, <<-1, 5>>, <<0, 2>>}

\* the sum of array[lo..hi], the elements outside the array counting as zero
RECURSIVE border_constant_sum(_, _, _)
border_constant_sum(array, lo, hi) ==
    IF lo > hi THEN 0
    ELSE (IF lo >= 1 /\ lo <= Len(array) THEN array[lo] ELSE 0)
         + border_constant_sum(array, lo + 1, hi)

\* cv.boxFilter(array, -1, win_size, normalize=False, borderType=BORDER_CONSTANT)
\* on a one-row array: the kernel is anchored at its centre
boxFilter(array, win_size) ==
    LET half == (win_size[1] - 1) \div 2
    IN  [p \in 1..Len(array) |-> border_constant_sum(array, p - half, p + half)]

\* cv.sqrBoxFilter with the same arguments
sqrBoxFilter(array, win_size) ==
    boxFilter([p \in 1..Len(array) |-> array[p] * array[p]], win_size)

\* a parameter that is nodata
param_nodata == <<hom_nodata, 1>>

\* HomonImBase._find_gain_and_offset_cv up to the test of r2_threshold: the
\* reference array is changed in place, and the parameters are
\* <<gains, offsets>>
find_gain_and_offset_cv(ref_array, src_array, win_size, mask_partial_window) ==
    LET pixels == 1..Len(src_array)
        src_mask == [p \in pixels |-> src_array[p] # hom_nodata]
        ref == [p \in pixels |-> IF src_mask[p] THEN ref_array[p] ELSE hom_nodata]
        src_sum == boxFilter(src_array, win_size)
        ref_sum == boxFilter(ref, win_size)
        src_ref_sum == boxFilter([p \in pixels |-> src_array[p] * ref[p]], win_size)
        mask_sum == boxFilter([p \in pixels |-> IF src_mask[p] THEN 1 ELSE 0], win_size)
        m_num_array == [p \in pixels |-> mask_sum[p] * src_ref_sum[p] - src_sum[p] * ref_sum[p]]
        src2_sum == sqrBoxFilter(src_array, win_size)
        m_den_array == [p \in pixels |-> mask_sum[p] * src2_sum[p] - src_sum[p] * src_sum[p]]
        gain == [p \in pixels |->
                    IF src_mask[p] THEN <<m_num_array[p], m_den_array[p]>> ELSE param_nodata]
        offset == [p \in pixels |->
                    IF src_mask[p]
                    THEN <<ref_sum[p] * m_den_array[p] - m_num_array[p] * src_sum[p],
                           mask_sum[p] * m_den_array[p]>>
                    ELSE param_nodata]
        full == [p \in pixels |-> src_mask[p] /\ mask_sum[p] >= win_size[1] * win_size[2]]
        masked(param) == [p \in pixels |-> IF full[p] THEN param[p] ELSE param_nodata]
    IN  [ref_array |-> ref, mask_sum |-> mask_sum,
         param_array |-> IF mask_partial_window THEN <<masked(gain), masked(offset)>>
                         ELSE <<gain, offset>>]

\* the source rows
HomSrcArrays == [1..HomLen -> 0..HomMaxValue]

\* the reference made from a source row with the model (a, b); hole is the
\* pixel where the reference has no data, 0 for none
HomRefArray(src_array, model, hole) ==
    [p \in 1..Len(src_array) |->
        IF p = hole THEN hom_nodata ELSE model[1] * src_array[p] + model[2]]

\* the configurations: r2_threshold is None, or the key is missing as it is in
\* the default homo_config of HomonImBase.__init__
HomConfigs == [mask_partial_window : BOOLEAN, r2_threshold : {"None", "missing"}]

\* the shape of the reference grid that covers the source
HomRefRows == 2
HomRefCols == 3

\* ref_props.res of HomonimRefSpace, the source resolution being 1: the grids
\* are aligned, and the source grid has ref_res x ref_res pixels in every
\* reference pixel
HomRefRes == {1, 2}

\* the pixels <<row, column>> of a grid
grid_pixels(shape) == (1..shape[1]) \X (1..shape[2])

\* the shape of the source array whose reference pixels are ref_res wide
HomSrcShape(ref_res) == <<HomRefRows * ref_res, HomRefCols * ref_res>>

\* the valid masks of the source, as sets of pixels: the whole grid, or the
\* grid with a rectangular notch of nodata
HomSrcMasks(shape) ==
    {grid_pixels(shape)} \cup
    {grid_pixels(shape) \ ((r0..r1) \X (c0..c1)) :
        <<r0, r1, c0, c1>> \in {n \in (1..shape[1]) \X (1..shape[1]) \X (1..shape[2])
                                       \X (1..shape[2]) : n[1] <= n[2] /\ n[3] <= n[4]}}

\* the source pixels that a reference pixel covers
ref_pixel_cover(ref_pixel, ref_res, src_shape) ==
    {p \in grid_pixels(src_shape) :
        np_ceil(p[1], ref_res) = ref_pixel[1] /\ np_ceil(p[2], ref_res) = ref_pixel[2]}

\* HomonimRefSpace._homogenise_array, lines 687-694: the source on the
\* reference grid.  A reference pixel has data when some source pixel under it
\* has; with mask_partial_pixel, only when all of them have
project_src_to_ref(src_mask, ref_res, src_shape, mask_partial_pixel) ==
    {ref_pixel \in grid_pixels(<<HomRefRows, HomRefCols>>) :
        LET cover == ref_pixel_cover(ref_pixel, ref_res, src_shape)
        IN  IF mask_partial_pixel THEN cover \subseteq src_mask
            ELSE cover \cap src_mask # {}}

\* HomonImBase._project_ref_to_src on the parameters: a source pixel has the
\* parameters of the reference pixel it lies in
project_ref_to_src(param_ds_mask, ref_res, src_shape) ==
    {p \in grid_pixels(src_shape) :
        <<np_ceil(p[1], ref_res), np_ceil(p[2], ref_res)>> \in param_ds_mask}

\* a dilation that leaves the mask as it is
dilate_none(param_mask, kernel_size, shape) == param_mask

\* cv2.dilate(mask, se) with se = getStructuringElement(MORPH_RECT,
\* kernel_size): the element is anchored at kernel_size // 2, and the border
\* adds nothing
dilate(param_mask, kernel_size, shape) ==
    LET offsets(k) == (0 - (k \div 2))..(k - 1 - (k \div 2))
    IN  {p \in grid_pixels(shape) :
            \E dy \in offsets(kernel_size[1]), dx \in offsets(kernel_size[2]) :
                <<p[1] + dy, p[2] + dx>> \in param_mask}

\* HomonimRefSpace._homogenise_array with method gain_only and a positive
\* reference: the pixels that have parameters after the upsampling and the
\* masking, and the pixels of the corrected array that are not nodata
homogenise_array(src_mask, ref_res, homo_config) ==
    LET src_shape == HomSrcShape(ref_res)
        src_ds_mask == project_src_to_ref(src_mask, ref_res, src_shape,
                                          homo_config.mask_partial_pixel)
        upsampled == project_ref_to_src(src_ds_mask, ref_res, src_shape)
        param_mask == grid_pixels(src_shape) \ upsampled
        kernel_size == <<np_ceil(ref_res, 1), np_ceil(ref_res, 1)>>
        masked == IF homo_config.mask_partial_interp
                  THEN dilate(param_mask, kernel_size, src_shape)
                  ELSE param_mask
    IN  [upsampled |-> upsampled,
         param_array |-> grid_pixels(src_shape) \ masked,
         out_array |-> src_mask \ masked]

\* the configurations of the masking
HomMaskConfigs == [mask_partial_pixel : BOOLEAN, mask_partial_interp : BOOLEAN]

\* the state before a call of the fit, or of the correction of one band
InitHomonim ==
    /\ src_file = [shape |-> <<1, HomLen>>, res |-> 1, org |-> <<0, 0>>,
                   colorinterp |-> <<"gray">>]
    /\ ref_file = [shape |-> <<1, HomLen>>, res |-> 1, org |-> <<0, 0>>,
                   colorinterp |-> <<"gray">>]
    /\ homo_file = "absent"
    /\ param_file = "absent"
    /\ proc_crs_arg = "auto"
    /\ obj = "none"
    /\ self = NoSelf
    /\ src_state = "none"
    /\ ref_state = "none"
    /\ ctx = "out"
    /\ gen = NoGen
    /\ yielded = << >>
    /\ raised = "none"
    /\ InitFuse
    /\ ds = NoDataset
    /\ out = NoDataset
    /\ ra = NoArray
    /\ call = NoCall
    /\ \/ \E src_array \in HomSrcArrays, model \in HomModels, hole \in 0..HomLen,
             win_size \in HomWinSizes, homo_config \in HomConfigs :
               hom = [pc |-> "args", src_array |-> src_array,
                      ref_array |-> HomRefArray(src_array, model, hole),
                      model |-> model, win_size |-> win_size, homo_config |-> homo_config,
                      mask_sum |-> << >>, param_array |-> << >>, error |-> "none"]
       \/ \E ref_res \in HomRefRes, homo_config \in HomMaskConfigs :
            \E src_mask \in HomSrcMasks(HomSrcShape(ref_res)) :
               hom = [pc |-> "band", src_array |-> src_mask, ref_res |-> ref_res,
                      homo_config |-> homo_config, upsampled |-> {},
                      param_array |-> {}, out_array |-> {}]

\* one call of _find_gain_and_offset_cv: without the key r2_threshold the test
\* of line 571 raises, after the reference was changed
FindGainAndOffset ==
    /\ hom.pc = "args"
    /\ LET fit == find_gain_and_offset_cv(hom.ref_array, hom.src_array, hom.win_size,
                                          hom.homo_config.mask_partial_window)
       IN  IF hom.homo_config.r2_threshold = "missing"
           THEN hom' = [hom EXCEPT !.pc = "raised", !.error = "KeyError",
                                   !.ref_array = fit.ref_array]
           ELSE hom' = [hom EXCEPT !.pc = "done", !.ref_array = fit.ref_array,
                                   !.mask_sum = fit.mask_sum,
                                   !.param_array = fit.param_array]
    /\ raised' = IF hom.homo_config.r2_threshold = "missing" THEN "KeyError" ELSE raised
    /\ UNCHANGED <<readerVars, genVars, fuseVars, ds, out, ra, call>>

\* HomonimRefSpace._homogenise_array on one band
HomogeniseArray ==
    /\ hom.pc = "band"
    /\ LET res == homogenise_array(hom.src_array, hom.ref_res, hom.homo_config)
       IN  hom' = [hom EXCEPT !.pc = "homogenised", !.upsampled = res.upsampled,
                              !.param_array = res.param_array,
                              !.out_array = res.out_array]
    /\ UNCHANGED <<readerVars, genVars, raised, fuseVars, ds, out, ra, call>>

NextHomonim == FindGainAndOffset \/ HomogeniseArray

SpecHomonim == InitHomonim /\ [][NextHomonim]_vars

\* ---------------------------------------------------------------------------
\* C28: affine recovery of the gain and offset fit
\* ---------------------------------------------------------------------------

\* the pixel is valid in the source and in the reference
HomValid(p) == hom.src_array[p] # hom_nodata /\ hom.ref_array[p] # hom_nodata

\* the pixels of the zero-padded kernel window at p
HomWindow(p) ==
    {q \in 1..HomLen : q >= p - (hom.win_size[1] - 1) \div 2
                       /\ q <= p + (hom.win_size[1] - 1) \div 2}

\* the window at p has two valid pixels with distinct source values
TwoDistinctValid(p) ==
    \E q, r \in HomWindow(p) :
        HomValid(q) /\ HomValid(r) /\ hom.src_array[q] # hom.src_array[r]

\* the quotient is the integer value
QuotientIs(quotient, value) == quotient[2] # 0 /\ quotient[1] = value * quotient[2]

\* the fitted model at p is the model the reference was made with
ModelRecovered(p) ==
    /\ QuotientIs(hom.param_array[1][p], hom.model[1])
    /\ QuotientIs(hom.param_array[2][p], hom.model[2])

\* every pixel of the window at p that is valid in the source is valid in the
\* reference
RefValidWhereSrc(p) ==
    \A q \in HomWindow(p) : hom.src_array[q] # hom_nodata => HomValid(q)

\* C28: when the reference is a * source + b on every pixel valid in both, the
\* fit returns gain a and offset b at every valid pixel whose kernel window has
\* two valid pixels with distinct source values
C28_AffineRecovery ==
    hom.pc = "done" /\ ~hom.homo_config.mask_partial_window =>
        \A p \in 1..HomLen : HomValid(p) /\ TwoDistinctValid(p) => ModelRecovered(p)

\* C28, what the code does: the model is recovered where, in the window, the
\* reference is valid on every pixel the source is valid on
C28_RecoveryWhereRefValid ==
    hom.pc = "done" /\ ~hom.homo_config.mask_partial_window =>
        \A p \in 1..HomLen :
            HomValid(p) /\ TwoDistinctValid(p) /\ RefValidWhereSrc(p) => ModelRecovered(p)

\* the model was recovered at a pixel
C28_WitnessRecovered ==
    /\ hom.pc = "done"
    /\ \E p \in 1..HomLen : HomValid(p) /\ TwoDistinctValid(p) /\ ModelRecovered(p)

\* a pixel of the window is valid in the source only, and the model is not
\* recovered: N and the sums count it
C28_WitnessNotRecovered ==
    /\ hom.pc = "done"
    /\ ~hom.homo_config.mask_partial_window
    /\ \E p \in 1..HomLen :
        HomValid(p) /\ TwoDistinctValid(p) /\ ~RefValidWhereSrc(p) /\ ~ModelRecovered(p)

\* ---------------------------------------------------------------------------
\* C27: the mask of the corrected image with and without mask_partial
\* ---------------------------------------------------------------------------

\* the pixels next to p, four-connected as rasterio.features.shapes takes them
FourNeighbours(p) ==
    {<<p[1] - 1, p[2]>>, <<p[1] + 1, p[2]>>, <<p[1], p[2] - 1>>, <<p[1], p[2] + 1>>}

\* the pixels of the region that are connected to the seen ones
RECURSIVE Flood(_, _)
Flood(region, seen) ==
    LET more == seen \cup {p \in region : FourNeighbours(p) \cap seen # {}}
    IN  IF more = seen THEN seen ELSE Flood(region, more)

\* the region is one connected region
OneRegion(region) ==
    region # {} /\ Flood(region, {CHOOSE p \in region : TRUE}) = region

\* mask_partial is on: both maskings of HomonimRefSpace are; off: neither is
MaskPartial ==
    hom.homo_config.mask_partial_pixel /\ hom.homo_config.mask_partial_interp

NoMaskPartial ==
    ~hom.homo_config.mask_partial_pixel /\ ~hom.homo_config.mask_partial_interp

\* the pixels of the structuring element laid at p that are in the image
ElementAt(p) ==
    LET k == hom.ref_res
    IN  {q \in grid_pixels(HomSrcShape(hom.ref_res)) :
            /\ q[1] - p[1] \in (0 - (k \div 2))..(k - 1 - (k \div 2))
            /\ q[2] - p[2] \in (0 - (k \div 2))..(k - 1 - (k \div 2))}

C27_WitnessSplit ==
    /\ hom.pc = "homogenised"
    /\ MaskPartial
    /\ OneRegion(hom.src_array)
    /\ hom.out_array # {}
    /\ ~OneRegion(hom.out_array)

\* a source with valid pixels is corrected to nothing
C27_WitnessEmpty ==
    /\ hom.pc = "homogenised"
    /\ MaskPartial
    /\ hom.src_array # {}
    /\ hom.out_array = {}

\* a source with nodata loses no pixel to mask_partial
C27_WitnessNotStrict ==
    /\ hom.pc = "homogenised"
    /\ MaskPartial
    /\ hom.ref_res > 1
    /\ hom.src_array # grid_pixels(HomSrcShape(hom.ref_res))
    /\ hom.src_array # {}
    /\ hom.out_array = hom.src_array

\* without mask_partial a source with a notch keeps its mask
C27_WitnessNoMaskPartial ==
    /\ hom.pc = "homogenised"
    /\ NoMaskPartial
    /\ hom.src_array # grid_pixels(HomSrcShape(hom.ref_res))
    /\ hom.out_array = hom.src_array

====
